---- MODULE Spec2Model ----
(***************************************************************************)
(* The TPC-H bulk-load pipeline of graphonauts: the three backend adapters *)
(* (ArangoDB, Neo4j, NebulaGraph), their per-table loaders, the batching   *)
(* of bulk writes and the key derivation, as a state machine over the      *)
(* bulk-write calls issued to the backend.                                 *)
(***************************************************************************)
EXTENDS Integers, Sequences, FiniteSets, TLC

(***************************************************************************)
(* Bounds of the model.                                                    *)
(***************************************************************************)
\* rows of each of the six small tables range over 1..MaxSmall
MaxSmall == 2
\* backend failures (rejected chunk, raised exception, failed USE) per run; a run
\* over a data set with a table of more than batch_size rows, and a run of lifecycle
\* calls, sees one at most
MaxFailures == 1
\* line numbers of one order: 1..LinesPerOrder (TPC-H: 1..7)
LinesPerOrder == 7
\* inputs of the pure batching function: list lengths 0..MaxLen, sizes 1..MaxBatch
MaxLen == 12
MaxBatch == 5
\* inputs of the key derivation: keys 1..MaxKey, line numbers 1..MaxLine
MaxKey == 30
MaxLine == 12
\* lifecycle calls a program that uses a client class makes: at most MaxCalls
MaxCalls == 5

(***************************************************************************)
(* Program constants.                                                      *)
(***************************************************************************)
\* batch_size: the default of _aload_batch / _load_batch_vertices /
\* _load_batch_edges and the local of ArangodbTPCH._aload_lineitem
batch_size == 1000
\* the width of the format spec {linenumber:04d}
LineNumberWidth == 4

Adapters == {"arango", "neo4j", "nebula"}

\* a variant that awaits the nation loader before the region loader
LoadOrderNationFirst ==
    <<"nation", "region", "supplier", "customer", "part", "partsupp", "orders", "lineitem">>

\* aload / load: the loaders in the order they are awaited
LoadOrder ==
    <<"region", "nation", "supplier", "customer", "part", "partsupp", "orders", "lineitem">>

Tables == {LoadOrder[i] : i \in 1..Len(LoadOrder)}

Min(a, b) == IF a < b THEN a ELSE b

(***************************************************************************)
(* Conversions.  A Python str is a sequence of one-character strings.      *)
(***************************************************************************)
Digits == <<"0", "1", "2", "3", "4", "5", "6", "7", "8", "9">>

\* str(n) for n >= 0
RECURSIVE ToStr(_)
ToStr(n) ==
    IF n < 10 THEN <<Digits[n + 1]>>
    ELSE ToStr(n \div 10) \o <<Digits[(n % 10) + 1]>>

RECURSIVE Zeros(_)
Zeros(k) == IF k <= 0 THEN <<>> ELSE <<"0">> \o Zeros(k - 1)

\* f"{n:0{w}d}": zero-padded on the left to a width of at least w
FmtZeroPad(n, w) == Zeros(w - Len(ToStr(n))) \o ToStr(n)

DigitValue(c) == CHOOSE d \in 0..9 : Digits[d + 1] = c

\* the value of the first k digits of s
RECURSIVE ParsePrefix(_, _)
ParsePrefix(s, k) == IF k = 0 THEN 0 ELSE 10 * ParsePrefix(s, k - 1) + DigitValue(s[k])

\* int(s) for a string of decimal digits
ParseInt(s) == ParsePrefix(s, Len(s))

\* a vertex key as the backend stores it: a string (ArangoDB _key), an
\* integer (Neo4j key property, NebulaGraph vid) or, for a node created
\* without a key, the identity the backend gives it
StrKey(s) == [t |-> "str", s |-> s, n |-> 0]
IntKey(n) == [t |-> "int", s |-> <<>>, n |-> n]
NodeKey(n) == [t |-> "node", s |-> <<>>, n |-> n]

(***************************************************************************)
(* State.                                                                  *)
(***************************************************************************)
VARIABLES
    adapter,    \* which client class runs: "arango", "neo4j" or "nebula"
    nrows,      \* the row count of each table's .tbl file
    status,     \* "ready", "loading", "done" (load returned), "aborted" (an exception left load)
    pc,         \* [t |-> index into LoadOrder, k |-> index of the next backend call of that loader]
    invoked,    \* the loaders load has called so far, in call order
    vertices,   \* the vertices the backend stores: [kind, key]
    edges,      \* the edges the backend stores: [rel, from, to, id]
    nextId,     \* the next identity the backend hands to a keyless node or edge
    writes,     \* every bulk-write call issued so far, in issue order
    log,        \* the messages logged so far
    ret,        \* the value the last finished batch-load call returned
    failures,   \* backend failures so far
    fn,         \* the pure function under test: "none", "batch", "key"
    fn_in,      \* its input
    fn_out,     \* its output, once applied
    caller,     \* who calls the client: "none" (a load on a provisioned backend), a script
                \* ("load", "queries") or "api" (any program that uses the class)
    env,        \* the backend: "up", "unreachable" or "auth_rejected"
    client,     \* self.client / self.driver / self.connection (and self.db):
                \* "None", "no_db", "open", "closed"
    catalog,    \* what the namespace holds besides data: [k, name]
    stmts,      \* the statements sent to the backend and the waits made, in order, by the
                \* lifecycle call in progress or last made
    last,       \* the lifecycle call in progress or last made: [op, outcome]
    pre,        \* the backend at the start of that call: [vertices, edges, catalog] and
                \* how far its schema statements had propagated
    spc,        \* the script's position: the index of its next lifecycle call
    ncalls      \* lifecycle calls made so far

vars == <<adapter, nrows, status, pc, invoked, vertices, edges, nextId, writes, log, ret,
          failures, fn, fn_in, fn_out, caller, env, client, catalog, stmts, last, pre, spc,
          ncalls>>

lifeVars == <<caller, env, client, catalog, last, pre, spc, ncalls>>

loadVars == <<adapter, nrows, status, pc, invoked, vertices, edges, nextId, writes, log,
              ret, failures>>

fnVars == <<fn, fn_in, fn_out>>

(***************************************************************************)
(* The source files.  Row i of a table (1-based) has the TPC-H primary key *)
(* of its position and foreign keys that cycle over the referenced table,  *)
(* so every foreign key has a target and composite keys do not repeat.     *)
(***************************************************************************)
\* pd.read_csv(...).iterrows() / to_dict(orient="records"), the key columns
Row(t, i) ==
    CASE t = "region"   -> [regionkey |-> i - 1]
      [] t = "nation"   -> [nationkey |-> i - 1, regionkey |-> (i - 1) % nrows["region"]]
      [] t = "supplier" -> [suppkey |-> i, nationkey |-> i % nrows["nation"]]
      [] t = "customer" -> [custkey |-> i, nationkey |-> i % nrows["nation"]]
      [] t = "part"     -> [partkey |-> i]
      [] t = "partsupp" -> [partkey |-> ((i - 1) % nrows["part"]) + 1,
                            suppkey |-> (((i - 1) \div nrows["part"]) % nrows["supplier"]) + 1]
      [] t = "orders"   -> [orderkey |-> i, custkey |-> ((i - 1) % nrows["customer"]) + 1]
      [] t = "lineitem" -> [orderkey |-> ((i - 1) \div LinesPerOrder) + 1,
                            linenumber |-> ((i - 1) % LinesPerOrder) + 1,
                            partkey |-> ((i - 1) % nrows["part"]) + 1,
                            suppkey |-> ((i - 1) % nrows["supplier"]) + 1]

\* the list of a table's rows, by row number
Data(t) == [i \in 1..nrows[t] |-> i]

\* the row counts a run may start from: every table of the same small size, or
\* one-row tables with an orders file, or a lineitem file, of more than one batch
SmallData(n) == [t \in Tables |-> n]

Datasets ==
    {SmallData(n) : n \in 1..MaxSmall}
    \cup {[SmallData(1) EXCEPT !["orders"] = batch_size + 1],
          [SmallData(1) EXCEPT !["orders"] = (batch_size + LinesPerOrder) \div LinesPerOrder,
                               !["lineitem"] = batch_size + 1]}

(***************************************************************************)
(* Batching.                                                               *)
(***************************************************************************)
\* a variant with the stop one too low: range(0, n - 1, step)
RangeShort(n, step) ==
    [k \in 1..Cardinality({i \in 0..(n - 2) : i % step = 0}) |-> (k - 1) * step]

\* range(0, n, step) as the list of its values
Range(n, step) ==
    [k \in 1..Cardinality({i \in 0..(n - 1) : i % step = 0}) |-> (k - 1) * step]

\* a variant with the end one too low: data[i:j - 1]
SliceShort(data, i, j) == SubSeq(data, i + 1, Min(j - 1, Len(data)))

\* data[i:j] for 0 <= i <= j (Python slice: 0-based, j exclusive, clipped to len(data))
Slice(data, i, j) == SubSeq(data, i + 1, Min(j, Len(data)))

\* the loop `for i in range(0, len(data), batch_size): batch = data[i:i + batch_size]`
\* of _aload_batch, _load_batch_vertices and _load_batch_edges: the loop variable and
\* the batch of every iteration
Batches(data, size) ==
    LET starts == Range(Len(data), size)
    IN  [k \in 1..Len(starts) |->
            [i |-> starts[k], batch |-> Slice(data, starts[k], starts[k] + size)]]

\* total_batches = (len(data) + batch_size - 1) // batch_size
total_batches(n, size) == (n + size - 1) \div size

\* the loop of ArangodbTPCH._aload_lineitem: `for batch_num in range(total_batches):
\* batch_df = df.iloc[batch_num * batch_size : min((batch_num + 1) * batch_size, total_rows)]`
ArangoBatches(df, size) ==
    [k \in 1..total_batches(Len(df), size) |->
        [i |-> k - 1, batch |-> Slice(df, (k - 1) * size, Min(k * size, Len(df)))]]

(***************************************************************************)
(* Backend calls.  A loader is the list of the backend calls it makes, in  *)
(* order; `rows` are the row numbers the call carries.                     *)
(***************************************************************************)
\* i: the loop variable of the batch loop the call is made in; src, dst: the key
\* fields of the rows it reads; skip: the calls that are not made when it fails
Call(call, t, coll, rows, i, src, dst, skip) ==
    [call |-> call, table |-> t, coll |-> coll, rows |-> rows, i |-> i, src |-> src,
     dst |-> dst, skip |-> skip]

RECURSIVE Concat(_)
Concat(ss) == IF Len(ss) = 0 THEN <<>> ELSE ss[1] \o Concat(Tail(ss))

(***************************************************************************)
(* ArangoDB adapter.                                                       *)
(***************************************************************************)
\* VERTICES
VERTICES ==
    <<"region", "nation", "supplier", "customer", "part", "partsupp", "orders", "lineitem">>

\* a variant with the two columns in the other order
CompositeKeySwapped(a, b) == ToStr(b) \o <<"_">> \o ToStr(a)

\* partsupp_key / lineitem_key: f"{a}_{b}"
CompositeKey(a, b) == ToStr(a) \o <<"_">> \o ToStr(b)

\* the "_key" of the document a loader builds for row i of table t
ArangoKey(t, i) ==
    CASE t = "region"   -> ToStr(Row(t, i).regionkey)
      [] t = "nation"   -> ToStr(Row(t, i).nationkey)
      [] t = "supplier" -> ToStr(Row(t, i).suppkey)
      [] t = "customer" -> ToStr(Row(t, i).custkey)
      [] t = "part"     -> ToStr(Row(t, i).partkey)
      [] t = "partsupp" -> CompositeKey(Row(t, i).partkey, Row(t, i).suppkey)
      [] t = "orders"   -> ToStr(Row(t, i).orderkey)
      [] t = "lineitem" -> CompositeKey(Row(t, i).orderkey, Row(t, i).linenumber)

\* f"{collection}/{key}": a document handle
Handle(coll, key) == [kind |-> coll, key |-> StrKey(key)]

\* the vertex document a loader appends for row i of table t
ArangoVertexDoc(t, i) == Handle(t, ArangoKey(t, i))

\* the edge document ("_from", "_to") a loader appends for row i to the list it
\* inserts into the edge collection coll
ArangoEdgeDoc(coll, i) ==
    CASE coll = "nation_region" ->
           [rel |-> coll, from |-> Handle("nation", ToStr(Row("nation", i).nationkey)),
            to |-> Handle("region", ToStr(Row("nation", i).regionkey))]
      [] coll = "supplier_nation" ->
           [rel |-> coll, from |-> Handle("supplier", ToStr(Row("supplier", i).suppkey)),
            to |-> Handle("nation", ToStr(Row("supplier", i).nationkey))]
      [] coll = "customer_nation" ->
           [rel |-> coll, from |-> Handle("customer", ToStr(Row("customer", i).custkey)),
            to |-> Handle("nation", ToStr(Row("customer", i).nationkey))]
      [] coll = "partsupp_part" ->
           [rel |-> coll, from |-> Handle("partsupp", ArangoKey("partsupp", i)),
            to |-> Handle("part", ToStr(Row("partsupp", i).partkey))]
      [] coll = "partsupp_supplier" ->
           [rel |-> coll, from |-> Handle("partsupp", ArangoKey("partsupp", i)),
            to |-> Handle("supplier", ToStr(Row("partsupp", i).suppkey))]
      [] coll = "customer_orders" ->
           [rel |-> coll, from |-> Handle("customer", ToStr(Row("orders", i).custkey)),
            to |-> Handle("orders", ToStr(Row("orders", i).orderkey))]
      [] coll = "order_lineitems" ->
           [rel |-> coll, from |-> Handle("orders", ToStr(Row("lineitem", i).orderkey)),
            to |-> Handle("lineitem", ArangoKey("lineitem", i))]
      [] coll = "lineitem_part" ->
           [rel |-> coll, from |-> Handle("lineitem", ArangoKey("lineitem", i)),
            to |-> Handle("part", ToStr(Row("lineitem", i).partkey))]
      [] coll = "lineitem_supplier" ->
           [rel |-> coll, from |-> Handle("lineitem", ArangoKey("lineitem", i)),
            to |-> Handle("supplier", ToStr(Row("lineitem", i).suppkey))]

\* collection.insert_many(data): one call carrying the whole list
InsertMany(t, coll, rows) == Call("insert_many", t, coll, rows, 0, "", "", 0)

Arango_aload_region == <<InsertMany("region", "region", Data("region"))>>

Arango_aload_nation ==
    <<InsertMany("nation", "nation", Data("nation")),
      InsertMany("nation", "nation_region", Data("nation"))>>

Arango_aload_supplier ==
    <<InsertMany("supplier", "supplier", Data("supplier")),
      InsertMany("supplier", "supplier_nation", Data("supplier"))>>

Arango_aload_customer ==
    <<InsertMany("customer", "customer", Data("customer")),
      InsertMany("customer", "customer_nation", Data("customer"))>>

Arango_aload_part == <<InsertMany("part", "part", Data("part"))>>

Arango_aload_partsupp ==
    <<InsertMany("partsupp", "partsupp", Data("partsupp")),
      InsertMany("partsupp", "partsupp_part", Data("partsupp")),
      InsertMany("partsupp", "partsupp_supplier", Data("partsupp"))>>

Arango_aload_orders ==
    <<InsertMany("orders", "orders", Data("orders")),
      InsertMany("orders", "customer_orders", Data("orders"))>>

\* for batch_num in range(total_batches): batch_df = df.iloc[start_idx:end_idx], then
\* four insert_many calls on the batch
Arango_aload_lineitem ==
    LET bs == ArangoBatches(Data("lineitem"), batch_size)
    IN  Concat([k \in 1..Len(bs) |->
            <<InsertMany("lineitem", "lineitem", bs[k].batch),
              InsertMany("lineitem", "order_lineitems", bs[k].batch),
              InsertMany("lineitem", "lineitem_part", bs[k].batch),
              InsertMany("lineitem", "lineitem_supplier", bs[k].batch)>>])

ArangoLoader(t) ==
    CASE t = "region"   -> Arango_aload_region
      [] t = "nation"   -> Arango_aload_nation
      [] t = "supplier" -> Arango_aload_supplier
      [] t = "customer" -> Arango_aload_customer
      [] t = "part"     -> Arango_aload_part
      [] t = "partsupp" -> Arango_aload_partsupp
      [] t = "orders"   -> Arango_aload_orders
      [] t = "lineitem" -> Arango_aload_lineitem

(***************************************************************************)
(* Neo4j adapter.                                                          *)
(***************************************************************************)
Node(label, k) == [kind |-> label, key |-> IntKey(k)]

\* a variant with the two ends exchanged
RelReversed(rel, from, to, id) == [rel |-> rel, from |-> to, to |-> from, id |-> id]

Rel(rel, from, to, id) == [rel |-> rel, from |-> from, to |-> to, id |-> id]

\* _aload_batch(query, data, table_name): one session.run per batch
aload_batch(t, table_name) ==
    LET bs == Batches(Data(t), batch_size)
    IN  [k \in 1..Len(bs) |-> Call("run", t, table_name, bs[k].batch, bs[k].i, "", "", 0)]

Neo4j_aload_region == aload_batch("region", "Region")
Neo4j_aload_nation == aload_batch("nation", "Nation")
Neo4j_aload_supplier == aload_batch("supplier", "Supplier")
Neo4j_aload_customer == aload_batch("customer", "Customer")
Neo4j_aload_part == aload_batch("part", "Part")
Neo4j_aload_partsupp == aload_batch("partsupp", "PartSupp")
Neo4j_aload_orders == aload_batch("orders", "Orders")
Neo4j_aload_lineitem == aload_batch("lineitem", "LineItem")

Neo4jLoader(t) ==
    CASE t = "region"   -> Neo4j_aload_region
      [] t = "nation"   -> Neo4j_aload_nation
      [] t = "supplier" -> Neo4j_aload_supplier
      [] t = "customer" -> Neo4j_aload_customer
      [] t = "part"     -> Neo4j_aload_part
      [] t = "partsupp" -> Neo4j_aload_partsupp
      [] t = "orders"   -> Neo4j_aload_orders
      [] t = "lineitem" -> Neo4j_aload_lineitem

\* The nodes the Cypher query of table t leaves in the store after UNWIND over
\* `rows`, from the nodes V: MERGE adds the node unless one with the key exists,
\* CREATE adds a new node for every row whose MATCH clauses all find a node.
Neo4jNodes(t, rows, V, id) ==
    LET R(j) == Row(t, rows[j])
        J == 1..Len(rows)
    IN  CASE t = "region"   -> V \cup {Node("Region", R(j).regionkey) : j \in J}
          [] t = "nation"   -> V \cup {Node("Nation", R(j).nationkey) : j \in J}
          [] t = "supplier" -> V \cup {Node("Supplier", R(j).suppkey) : j \in J}
          [] t = "customer" -> V \cup {Node("Customer", R(j).custkey) : j \in J}
          [] t = "part"     -> V \cup {Node("Part", R(j).partkey) : j \in J}
          [] t = "partsupp" -> V
          [] t = "orders"   -> V \cup {Node("Order", R(j).orderkey) : j \in J}
          [] t = "lineitem" ->
               V \cup {[kind |-> "LineItem", key |-> NodeKey(id + j)] :
                          j \in {x \in J : /\ Node("Order", R(x).orderkey) \in V
                                           /\ Node("Part", R(x).partkey) \in V
                                           /\ Node("Supplier", R(x).suppkey) \in V}}

\* The relationships the query of table t adds: MERGE (a)-[:T]->(b) adds one unless
\* a and b are already so related, CREATE always adds one; a row whose MATCH finds
\* no node adds none.  V is the node set before the query.
Neo4jRels(t, rows, V, id) ==
    LET R(j) == Row(t, rows[j])
        J == 1..Len(rows)
    IN  CASE t = "region" -> {}
          [] t = "nation" ->
               {Rel("BELONGS_TO", Node("Nation", R(j).nationkey),
                    Node("Region", R(j).regionkey), 0) :
                   j \in {x \in J : Node("Region", R(x).regionkey) \in V}}
          [] t = "supplier" ->
               {Rel("LOCATED_IN", Node("Supplier", R(j).suppkey),
                    Node("Nation", R(j).nationkey), 0) :
                   j \in {x \in J : Node("Nation", R(x).nationkey) \in V}}
          [] t = "customer" ->
               {Rel("LOCATED_IN", Node("Customer", R(j).custkey),
                    Node("Nation", R(j).nationkey), 0) :
                   j \in {x \in J : Node("Nation", R(x).nationkey) \in V}}
          [] t = "part" -> {}
          [] t = "partsupp" ->
               {Rel("SUPPLIES", Node("Supplier", R(j).suppkey), Node("Part", R(j).partkey), 0) :
                   j \in {x \in J : /\ Node("Part", R(x).partkey) \in V
                                    /\ Node("Supplier", R(x).suppkey) \in V}}
          [] t = "orders" ->
               {Rel("PLACED", Node("Customer", R(j).custkey), Node("Order", R(j).orderkey), 0) :
                   j \in {x \in J : Node("Customer", R(x).custkey) \in V}}
          [] t = "lineitem" ->
               LET M == {x \in J : /\ Node("Order", R(x).orderkey) \in V
                                   /\ Node("Part", R(x).partkey) \in V
                                   /\ Node("Supplier", R(x).suppkey) \in V}
                   li(j) == [kind |-> "LineItem", key |-> NodeKey(id + j)]
               IN  {Rel("CONTAINS", Node("Order", R(j).orderkey), li(j), id + j) : j \in M}
                   \cup {Rel("OF_PART", li(j), Node("Part", R(j).partkey), id + j) : j \in M}
                   \cup {Rel("SUPPLIED_BY", li(j), Node("Supplier", R(j).suppkey), id + j) :
                            j \in M}

(***************************************************************************)
(* NebulaGraph adapter.                                                    *)
(***************************************************************************)
\* a variant without the zero padding: int(f"{orderkey}{linenumber}")
lineitem_id_unpadded(orderkey, linenumber) ==
    ParseInt(ToStr(orderkey) \o ToStr(linenumber))

\* lineitem_id = int(f"{row['orderkey']}{row['linenumber']:04d}")
lineitem_id(orderkey, linenumber) ==
    ParseInt(ToStr(orderkey) \o FmtZeroPad(linenumber, LineNumberWidth))

\* the dict a loader hands to the batch loaders for row i of table t
NebulaRow(t, i) ==
    IF t = "lineitem"
    THEN [orderkey |-> Row(t, i).orderkey, linenumber |-> Row(t, i).linenumber,
          partkey |-> Row(t, i).partkey, suppkey |-> Row(t, i).suppkey,
          lineitemkey |-> lineitem_id(Row(t, i).orderkey, Row(t, i).linenumber)]
    ELSE Row(t, i)

\* a variant that goes on to the batches when USE has failed
load_batch_vertices_no_return(t, tag, key_field) ==
    LET bs == IF Len(Data(t)) = 0 THEN <<>> ELSE Batches(Data(t), batch_size)
    IN  <<Call("USE", t, tag, <<>>, 0, "", "", 0)>>
        \o [k \in 1..Len(bs) |->
               Call("INSERT VERTEX", t, tag, bs[k].batch, bs[k].i, key_field, "", 0)]

\* _load_batch_vertices(tag, data, key_field): USE, then one INSERT VERTEX per batch
load_batch_vertices(t, tag, key_field) ==
    LET bs == IF Len(Data(t)) = 0 THEN <<>> ELSE Batches(Data(t), batch_size)
    IN  <<Call("USE", t, tag, <<>>, 0, "", "", Len(bs))>>
        \o [k \in 1..Len(bs) |->
               Call("INSERT VERTEX", t, tag, bs[k].batch, bs[k].i, key_field, "", 0)]

\* _load_batch_edges(edge_type, data, src_field, dst_field): USE, then one INSERT EDGE
\* per batch
load_batch_edges(t, edge_type, src_field, dst_field) ==
    LET bs == IF Len(Data(t)) = 0 THEN <<>> ELSE Batches(Data(t), batch_size)
    IN  <<Call("USE", t, edge_type, <<>>, 0, "", "", Len(bs))>>
        \o [k \in 1..Len(bs) |->
               Call("INSERT EDGE", t, edge_type, bs[k].batch, bs[k].i, src_field, dst_field,
                    0)]

Nebula_aload_region == load_batch_vertices("region", "Region", "regionkey")

Nebula_aload_nation ==
    load_batch_vertices("nation", "Nation", "nationkey")
    \o load_batch_edges("nation", "LOCATED_IN", "nationkey", "regionkey")

Nebula_aload_supplier ==
    load_batch_vertices("supplier", "Supplier", "suppkey")
    \o load_batch_edges("supplier", "BELONGS_TO", "suppkey", "nationkey")

Nebula_aload_customer ==
    load_batch_vertices("customer", "Customer", "custkey")
    \o load_batch_edges("customer", "BELONGS_TO", "custkey", "nationkey")

Nebula_aload_part == load_batch_vertices("part", "Part", "partkey")

Nebula_aload_partsupp == load_batch_edges("partsupp", "SUPPLIES", "suppkey", "partkey")

\* a variant that loads the PLACED edges before the Order vertices
Nebula_aload_orders_edges_first ==
    load_batch_edges("orders", "PLACED", "custkey", "orderkey")
    \o load_batch_vertices("orders", "Order", "orderkey")

Nebula_aload_orders ==
    load_batch_vertices("orders", "Order", "orderkey")
    \o load_batch_edges("orders", "PLACED", "custkey", "orderkey")

Nebula_aload_lineitem ==
    load_batch_vertices("lineitem", "LineItem", "lineitemkey")
    \o load_batch_edges("lineitem", "CONTAINS", "orderkey", "lineitemkey")
    \o load_batch_edges("lineitem", "OF_PART", "lineitemkey", "partkey")
    \o load_batch_edges("lineitem", "SUPPLIED_BY", "lineitemkey", "suppkey")

NebulaLoader(t) ==
    CASE t = "region"   -> Nebula_aload_region
      [] t = "nation"   -> Nebula_aload_nation
      [] t = "supplier" -> Nebula_aload_supplier
      [] t = "customer" -> Nebula_aload_customer
      [] t = "part"     -> Nebula_aload_part
      [] t = "partsupp" -> Nebula_aload_partsupp
      [] t = "orders"   -> Nebula_aload_orders
      [] t = "lineitem" -> Nebula_aload_lineitem

\* a vertex id as an edge names it: the space has one id range for all tags
Vid(n) == [kind |-> "", key |-> IntKey(n)]

(***************************************************************************)
(* The columns of the source files and the properties of the vertices.  A  *)
(* .tbl file has no header: each loader names the columns by position,     *)
(* ArangodbTPCH with the TPC-H prefix of the table in front.               *)
(***************************************************************************)
\* df.columns, without the prefix
Columns(t) ==
    CASE t = "region"   -> <<"regionkey", "name", "comment">>
      [] t = "nation"   -> <<"nationkey", "name", "regionkey", "comment">>
      [] t = "supplier" ->
           <<"suppkey", "name", "address", "nationkey", "phone", "acctbal", "comment">>
      [] t = "customer" ->
           <<"custkey", "name", "address", "nationkey", "phone", "acctbal", "mktsegment",
             "comment">>
      [] t = "part"     ->
           <<"partkey", "name", "mfgr", "brand", "type", "size", "container", "retailprice",
             "comment">>
      [] t = "partsupp" -> <<"partkey", "suppkey", "availqty", "supplycost", "comment">>
      [] t = "orders"   ->
           <<"orderkey", "custkey", "orderstatus", "totalprice", "orderdate",
             "orderpriority", "clerk", "shippriority", "comment">>
      [] t = "lineitem" ->
           <<"orderkey", "partkey", "suppkey", "linenumber", "quantity", "extendedprice",
             "discount", "tax", "returnflag", "linestatus", "shipdate", "commitdate",
             "receiptdate", "shipinstruct", "shipmode", "comment">>

\* the columns a loader of ArangodbTPCH copies into the vertex document (besides "_key")
ArangoDocColumns(t) ==
    CASE t = "nation"   -> {"nationkey", "name", "comment"}
      [] t = "supplier" -> {"suppkey", "name", "address", "phone", "acctbal", "comment"}
      [] t = "customer" ->
           {"custkey", "name", "address", "phone", "acctbal", "mktsegment", "comment"}
      [] t = "orders"   ->
           {"orderkey", "orderstatus", "totalprice", "orderdate", "orderpriority", "clerk",
            "shippriority", "comment"}
      [] OTHER          -> {Columns(t)[i] : i \in 1..Len(Columns(t))}

\* the properties the Cypher query of a loader of Neo4jTPCH gives the node: the key of
\* MERGE and the properties of SET, or the map of CREATE; partsupp makes no node
Neo4jNodeColumns(t) ==
    CASE t = "region"   -> {"regionkey", "name", "comment"}
      [] t = "nation"   -> {"nationkey", "name", "comment"}
      [] t = "supplier" -> {"suppkey", "name", "address", "phone", "acctbal", "comment"}
      [] t = "customer" ->
           {"custkey", "name", "address", "phone", "acctbal", "mktsegment", "comment"}
      [] t = "part"     ->
           {"partkey", "name", "mfgr", "brand", "type", "size", "container", "retailprice",
            "comment"}
      [] t = "partsupp" -> {}
      [] t = "orders"   ->
           {"orderkey", "orderstatus", "totalprice", "orderdate", "orderpriority", "clerk",
            "shippriority", "comment"}
      [] t = "lineitem" ->
           {"orderkey", "partkey", "suppkey", "linenumber", "quantity", "extendedprice",
            "discount", "tax", "returnflag", "linestatus", "shipdate", "commitdate",
            "receiptdate", "shipinstruct", "shipmode", "comment"}

\* prop_names = list(data[0].keys()) of _load_batch_vertices: every key of the dicts the
\* loader hands over; partsupp is handed to _load_batch_edges only
NebulaVertexColumns(t) ==
    CASE t = "partsupp" -> {}
      [] t = "lineitem" -> {Columns(t)[i] : i \in 1..Len(Columns(t))} \cup {"lineitemkey"}
      [] OTHER          -> {Columns(t)[i] : i \in 1..Len(Columns(t))}

\* the columns of a row of table t that the vertex written for it carries
VertexColumns(a, t) ==
    CASE a = "arango" -> ArangoDocColumns(t)
      [] a = "neo4j"  -> Neo4jNodeColumns(t)
      [] a = "nebula" -> NebulaVertexColumns(t)

(***************************************************************************)
(* The namespace's catalogue and the statements of the lifecycle methods.  *)
(* A method is the sequence of its requests and waits; a step names the    *)
(* statement, the catalogue entries it makes and removes, the kinds whose  *)
(* data it deletes, how a failure of it ends ("raise": the exception       *)
(* leaves the method, "log": it is caught and logged, "ignore": the failed *)
(* result is not looked at) and the steps a caught exception jumps over.   *)
(***************************************************************************)
Elems(seq) == {seq[i] : i \in 1..Len(seq)}

Item(k, name) == [k |-> k, name |-> name]

Step(stmt, add, del, wipe, onfail, skip) ==
    [stmt |-> stmt, add |-> add, del |-> del, wipe |-> wipe, onfail |-> onfail,
     skip |-> skip]

Sleep == Step("sleep", {}, {}, {}, {}, 0)

EDGES ==
    <<"nation_region", "customer_nation", "supplier_nation", "customer_orders",
      "order_lineitems", "lineitem_supplier", "lineitem_part", "partsupp_part",
      "partsupp_supplier">>

\* (collection, name of the index, the column its field holds: the field has the name
\* of the column with the prefix of the table)
INDICES ==
    <<[coll |-> "customer", name |-> "customer_c_custkey_idx", column |-> "custkey"],
      [coll |-> "orders", name |-> "orders_o_orderkey_idx", column |-> "orderkey"],
      [coll |-> "orders", name |-> "orders_o_custkey_idx", column |-> "custkey"],
      [coll |-> "lineitem", name |-> "lineitem_l_orderkey_idx", column |-> "orderkey"],
      [coll |-> "lineitem", name |-> "lineitem_l_partkey_idx", column |-> "partkey"],
      [coll |-> "lineitem", name |-> "lineitem_l_suppkey_idx", column |-> "suppkey"],
      [coll |-> "partsupp", name |-> "partsupp_ps_partkey_idx", column |-> "partkey"],
      [coll |-> "partsupp", name |-> "partsupp_ps_suppkey_idx", column |-> "suppkey"],
      [coll |-> "supplier", name |-> "supplier_s_suppkey_idx", column |-> "suppkey"],
      [coll |-> "part", name |-> "part_p_partkey_idx", column |-> "partkey"],
      [coll |-> "nation", name |-> "nation_n_nationkey_idx", column |-> "nationkey"],
      [coll |-> "region", name |-> "region_r_regionkey_idx", column |-> "regionkey"]>>

\* the collections INDICES names, in the order of the dictionary
IndexedCollections ==
    <<"customer", "orders", "lineitem", "partsupp", "supplier", "part", "nation", "region">>

\* _from, _to = coll.split("_")
SplitFrom(coll) ==
    CASE coll = "nation_region"     -> "nation"
      [] coll = "customer_nation"   -> "customer"
      [] coll = "supplier_nation"   -> "supplier"
      [] coll = "customer_orders"   -> "customer"
      [] coll = "order_lineitems"   -> "order"
      [] coll = "lineitem_supplier" -> "lineitem"
      [] coll = "lineitem_part"     -> "lineitem"
      [] coll = "partsupp_part"     -> "partsupp"
      [] coll = "partsupp_supplier" -> "partsupp"

SplitTo(coll) ==
    CASE coll = "nation_region"     -> "region"
      [] coll = "customer_nation"   -> "nation"
      [] coll = "supplier_nation"   -> "nation"
      [] coll = "customer_orders"   -> "orders"
      [] coll = "order_lineitems"   -> "lineitems"
      [] coll = "lineitem_supplier" -> "supplier"
      [] coll = "lineitem_part"     -> "part"
      [] coll = "partsupp_part"     -> "part"
      [] coll = "partsupp_supplier" -> "supplier"

Neo4jIndices ==
    <<"region_key", "nation_key", "supplier_key", "customer_key", "part_key", "order_key",
      "partsupp_composite", "customer_nation", "supplier_nation", "nation_region",
      "order_customer", "lineitem_order", "lineitem_part", "lineitem_supplier">>

\* what each index of Neo4jTPCH.asetup is declared on: FOR (x:Label) ON (x.property, ...)
\* or, for partsupp_composite, FOR ()-[ps:SUPPLIES]-() ON (...)
OnNode(label, prop) == [on |-> "node", label |-> label, props |-> {prop}]

Neo4jIndexOn(name) ==
    CASE name = "region_key"         -> OnNode("Region", "regionkey")
      [] name = "nation_key"         -> OnNode("Nation", "nationkey")
      [] name = "supplier_key"       -> OnNode("Supplier", "suppkey")
      [] name = "customer_key"       -> OnNode("Customer", "custkey")
      [] name = "part_key"           -> OnNode("Part", "partkey")
      [] name = "order_key"          -> OnNode("Order", "orderkey")
      [] name = "partsupp_composite" ->
           [on |-> "relationship", label |-> "SUPPLIES", props |-> {"partkey", "suppkey"}]
      [] name = "customer_nation"    -> OnNode("Customer", "nationkey")
      [] name = "supplier_nation"    -> OnNode("Supplier", "nationkey")
      [] name = "nation_region"      -> OnNode("Nation", "regionkey")
      [] name = "order_customer"     -> OnNode("Order", "custkey")
      [] name = "lineitem_order"     -> OnNode("LineItem", "orderkey")
      [] name = "lineitem_part"      -> OnNode("LineItem", "partkey")
      [] name = "lineitem_supplier"  -> OnNode("LineItem", "suppkey")

Tags == <<"Region", "Nation", "Supplier", "Customer", "Part", "Order", "LineItem">>

EdgeTypes ==
    <<"BELONGS_TO", "LOCATED_IN", "SUPPLIES", "PLACED", "CONTAINS", "OF_PART", "SUPPLIED_BY">>

\* every vertex kind and edge type an adapter writes
AllKinds == Elems(VERTICES) \cup Elems(EDGES) \cup Elems(Tags) \cup Elems(EdgeTypes)

Has(cat, k, name) == Item(k, name) \in cat

\* the secondary indices of a collection go with the collection
IndicesOf(colls) == {Item("index", ix.name) : ix \in {x \in Elems(INDICES) : x.coll \in colls}}

Request(stmt) == Step(stmt, {}, {}, {}, {"raise"}, 0)

\* ArangodbTPCH.aconnect: sys_db.has_database, sys_db.create_database
ArangoConnectSteps(cat) ==
    <<Request("has_database")>>
    \o IF Has(cat, "database", "tpch") THEN <<>>
       ELSE <<Step("create_database", {Item("database", "tpch")}, {}, {}, {"raise"}, 0)>>

\* a variant that creates the collection without looking for it
ArangoEnsureUnguarded(cat, coll) ==
    <<Step("has_collection", {}, {}, {}, {"raise"}, 0),
      Step("create_collection", {Item("collection", coll)}, {}, {}, {"raise"}, 0)>>

\* if not await self.db.has_collection(coll): await self.db.create_collection(coll, ...)
ArangoEnsure(cat, coll) ==
    <<Request("has_collection")>>
    \o IF Has(cat, "collection", coll) THEN <<>>
       ELSE <<Step("create_collection", {Item("collection", coll)}, {}, {}, {"raise"}, 0)>>

\* the add_index calls for one collection, each in its own try / except
ArangoAddIndices(coll) ==
    LET ixs == SelectSeq(INDICES, LAMBDA ix : ix.coll = coll)
    IN  <<Request("has_collection")>>
        \o [j \in 1..Len(ixs) |->
               Step("add_index", {Item("index", ixs[j].name)}, {}, {}, {"log"}, 0)]

\* ArangodbTPCH.asetup
ArangoSetupSteps(cat) ==
    Concat([i \in 1..Len(VERTICES \o EDGES) |-> ArangoEnsure(cat, (VERTICES \o EDGES)[i])])
    \o Concat([i \in 1..Len(IndexedCollections) |-> ArangoAddIndices(IndexedCollections[i])])

\* the collections the edge definitions of the graph name
GraphCollections(cat) ==
    UNION {{e, SplitFrom(e), SplitTo(e)} : e \in {x \in Elems(EDGES) : Has(cat, "edgedef", x)}}

\* what delete_graph(graph, drop_collections=True) removes
GraphItems(cat) ==
    {Item("graph", "tpchgraph")}
    \cup {it \in cat : it.k = "edgedef"}
    \cup {Item("collection", c) : c \in GraphCollections(cat)}
    \cup IndicesOf(GraphCollections(cat))

\* if await self.db.has_collection(coll): await self.db.delete_collection(coll)
ArangoDelete(cat, coll) ==
    <<Request("has_collection")>>
    \o IF Has(cat, "collection", coll)
       THEN <<Step("delete_collection", {}, {Item("collection", coll)} \cup IndicesOf({coll}),
                   {coll}, {"raise"}, 0)>>
       ELSE <<>>

\* ArangodbTPCH.aclear
ArangoClearSteps(cat) ==
    <<Request("has_graph")>>
    \o IF Has(cat, "graph", "tpchgraph")
       THEN <<Step("delete_graph", {}, GraphItems(cat), GraphCollections(cat), {"raise"}, 0)>>
       ELSE Concat([i \in 1..Len(VERTICES \o EDGES) |->
                       ArangoDelete(cat, (VERTICES \o EDGES)[i])])

\* ArangodbTPCH.agraph: an edge definition makes the collections it names
ArangoGraphSteps(cat) ==
    <<Request("has_graph")>>
    \o IF Has(cat, "graph", "tpchgraph") THEN <<>>
       ELSE <<Step("create_graph", {Item("graph", "tpchgraph")}, {}, {}, {"raise"}, 0)>>
            \o [i \in 1..Len(EDGES) |->
                   Step("create_edge_definition",
                        {Item("edgedef", EDGES[i]), Item("collection", EDGES[i]),
                         Item("collection", SplitFrom(EDGES[i])),
                         Item("collection", SplitTo(EDGES[i]))}, {}, {}, {"raise"}, 0)]

\* the indexes() and delete_index calls for one collection: a failure of indexes() is
\* caught around the whole loop, a failure of delete_index around the call
ArangoDropIndices(cat, coll) ==
    LET ixs == SelectSeq(INDICES, LAMBDA ix : ix.coll = coll /\ Has(cat, "index", ix.name))
    IN  <<Request("has_collection")>>
        \o IF Has(cat, "collection", coll)
           THEN <<Step("indexes", {}, {}, {}, {"log"}, Len(ixs))>>
                \o [j \in 1..Len(ixs) |->
                       Step("delete_index", {}, {Item("index", ixs[j].name)}, {}, {"log"}, 0)]
           ELSE <<>>

\* ArangodbTPCH.adrop
ArangoDropSteps(cat) ==
    Concat([i \in 1..Len(IndexedCollections) |->
               ArangoDropIndices(cat, IndexedCollections[i])])

\* async with self.driver.session() as session: a session of the driver is opened, which
\* sends nothing by itself
Session == Step("session", {}, {}, {}, {}, 0)

\* Neo4jTPCH.asetup, adrop, aclear, arun: session.run(...)
Neo4jSetupSteps ==
    <<Session>>
    \o [i \in 1..Len(Neo4jIndices) |->
           Step("CREATE INDEX", {Item("index", Neo4jIndices[i])}, {}, {}, {"log"}, 0)]

Neo4jDropSteps ==
    <<Session>>
    \o [i \in 1..Len(Neo4jIndices) |->
           Step("DROP INDEX", {}, {Item("index", Neo4jIndices[i])}, {}, {"log"}, 0)]

Neo4jClearSteps == <<Session, Step("DETACH DELETE", {}, {}, AllKinds, {"raise"}, 0)>>

Neo4jRunSteps == <<Session, Request("query")>>

\* what NebulaGraph keeps inside the space
SpaceItems == {Item("tag", t) : t \in Elems(Tags)} \cup {Item("edge", e) : e \in Elems(EdgeTypes)}

\* session.execute(...): a failed result is returned and an exception is raised on a
\* lost connection
Execute(stmt, add) == Step(stmt, add, {}, {}, {"ignore", "raise"}, 0)

\* NebulagraphTPCH.setup
NebulaSetupSteps ==
    <<Request("authenticate"), Execute("CREATE SPACE", {Item("space", "tpch")}), Sleep,
      Request("authenticate"), Execute("USE", {}), Sleep>>
    \o [i \in 1..Len(Tags) |-> Execute("CREATE TAG", {Item("tag", Tags[i])})]
    \o [i \in 1..Len(EdgeTypes) |-> Execute("CREATE EDGE", {Item("edge", EdgeTypes[i])})]
    \o <<Sleep>>

\* NebulagraphTPCH.clear: try: execute(DROP SPACE IF EXISTS); sleep; except: log
NebulaClearSteps ==
    <<Request("authenticate"),
      Step("DROP SPACE", {}, {Item("space", "tpch")} \cup SpaceItems, AllKinds,
           {"ignore", "log"}, 1),
      Sleep>>

\* a variant that sends the query right after USE
NebulaRunStepsNoWait ==
    <<Request("authenticate"), Execute("USE", {}), Request("query")>>

\* NebulagraphTPCH.run: USE, sleep(10), execute(query); a failed result raises
NebulaRunSteps ==
    <<Request("authenticate"), Execute("USE", {}), Sleep, Request("query")>>

\* the requests and waits of a lifecycle method on a catalogue
Steps(a, op, cat) ==
    CASE a = "arango" /\ op = "connect" -> ArangoConnectSteps(cat)
      [] a = "arango" /\ op = "setup"   -> ArangoSetupSteps(cat)
      [] a = "arango" /\ op = "clear"   -> ArangoClearSteps(cat)
      [] a = "arango" /\ op = "graph"   -> ArangoGraphSteps(cat)
      [] a = "arango" /\ op = "drop"    -> ArangoDropSteps(cat)
      [] a = "arango" /\ op = "query"   -> <<Request("query")>>
      [] a = "neo4j"  /\ op = "setup"   -> Neo4jSetupSteps
      [] a = "neo4j"  /\ op = "clear"   -> Neo4jClearSteps
      [] a = "neo4j"  /\ op = "drop"    -> Neo4jDropSteps
      [] a = "neo4j"  /\ op = "query"   -> Neo4jRunSteps
      [] a = "nebula" /\ op = "connect" -> <<Request("init")>>
      [] a = "nebula" /\ op = "setup"   -> NebulaSetupSteps
      [] a = "nebula" /\ op = "clear"   -> NebulaClearSteps
      [] a = "nebula" /\ op = "query"   -> NebulaRunSteps
      [] OTHER                          -> <<>>

\* what setup makes when nothing fails
Provisioned(a) ==
    CASE a = "arango" ->
           {Item("database", "tpch")}
           \cup {Item("collection", c) : c \in Elems(VERTICES) \cup Elems(EDGES)}
           \cup IndicesOf(Elems(VERTICES))
      [] a = "neo4j"  -> {Item("index", x) : x \in Elems(Neo4jIndices)}
      [] a = "nebula" -> {Item("space", "tpch")} \cup SpaceItems
      [] OTHER        -> {}

(***************************************************************************)
(* The load run.                                                           *)
(***************************************************************************)
Loader(t) ==
    CASE adapter = "arango" -> ArangoLoader(t)
      [] adapter = "neo4j"  -> Neo4jLoader(t)
      [] adapter = "nebula" -> NebulaLoader(t)

\* the calls of the loader that is running
CurLoader == Loader(LoadOrder[pc.t])

Msg(level, msg, table, n, b) ==
    [level |-> level, msg |-> msg, table |-> table, n |-> n, b |-> b]

AllLoaded == Msg("info", "All tables loaded successfully", "", 0, 0)

\* one record of the issue log
Written(op, result) ==
    [table |-> op.table, call |-> op.call, coll |-> op.coll, n |-> Len(op.rows),
     first |-> IF Len(op.rows) = 0 THEN 0 ELSE op.rows[1],
     last |-> IF Len(op.rows) = 0 THEN 0 ELSE op.rows[Len(op.rows)],
     result |-> result]

\* where the run stands after the current call of the loader `ld` and `skip` calls
\* it leaves out
After(ld, skip) ==
    IF pc.k + 1 + skip <= Len(ld)
    THEN [t |-> pc.t, k |-> pc.k + 1 + skip]
    ELSE [t |-> pc.t + 1, k |-> 1]

\* the call returned: go on with the loader, with the next loader of aload / load,
\* or return from it
Proceed(ld, skip, msgs) ==
    /\ pc' = After(ld, skip)
    /\ IF After(ld, skip).t > Len(LoadOrder)
       THEN /\ status' = "done"
            /\ log' = log \o msgs \o <<AllLoaded>>
            /\ invoked' = invoked
       ELSE /\ status' = status
            /\ log' = log \o msgs
            /\ invoked' = IF After(ld, skip).t = pc.t THEN invoked
                          ELSE Append(invoked, LoadOrder[After(ld, skip).t])

\* the call raised and nothing catches it: the exception leaves aload / load
Abort ==
    /\ status' = "aborted"
    /\ UNCHANGED <<pc, invoked, log, vertices, edges, nextId, ret>>

\* the failures a run may see
FailureBudget ==
    IF caller # "none" \/ \E t \in Tables : nrows[t] > batch_size
    THEN Min(1, MaxFailures)
    ELSE MaxFailures

MayFail == failures < FailureBudget

\* the current call is the last one of its loader or of its batch-load call
CallEnds(ld, skip) ==
    \/ After(ld, skip).t # pc.t
    \/ ld[After(ld, skip).k].call = "USE"

\* every loader and batch loader ends without a return statement
Returned(ld, skip) == IF CallEnds(ld, skip) THEN "None" ELSE ret

\* the client holds a connection and the backend answers
Connected == client = "open" /\ env = "up"

\* the statement goes to the backend
Send(stmt) == stmts' = Append(stmts, stmt)

SchemaStmts == {"DROP SPACE", "CREATE SPACE", "USE", "CREATE TAG", "CREATE EDGE"}

DataStmts == {"INSERT VERTEX", "INSERT EDGE", "query"}

\* where the first n statements of a call leave the backend: "settled" when every schema or
\* namespace statement has been followed by a wait, "pending" when one has not yet,
\* "early" once a data operation was sent while one was pending
RECURSIVE Propagation(_, _, _)
Propagation(before, seq, n) ==
    IF n = 0 THEN before
    ELSE LET p == Propagation(before, seq, n - 1)
         IN  CASE p = "early"             -> "early"
               [] seq[n] \in SchemaStmts  -> "pending"
               [] seq[n] = "sleep"        -> "settled"
               [] seq[n] \in DataStmts    -> IF p = "pending" THEN "early" ELSE p
               [] OTHER                   -> p

Snapshot ==
    [vertices |-> vertices, edges |-> edges, catalog |-> catalog,
     propagation |-> Propagation(pre.propagation, stmts, Len(stmts))]

Init ==
    /\ adapter \in Adapters
    /\ nrows \in Datasets
    /\ status = "ready"
    /\ pc = [t |-> 1, k |-> 1]
    /\ invoked = <<>>
    /\ vertices = {}
    /\ edges = {}
    /\ nextId = 0
    /\ writes = <<>>
    /\ log = <<>>
    /\ ret = "nothing"
    /\ failures = 0
    /\ fn = "none"
    /\ fn_in = <<>>
    /\ fn_out = <<>>
    /\ caller = "none"
    /\ env = "up"
    /\ client = "open"
    /\ catalog = Provisioned(adapter)
    /\ stmts = <<>>
    /\ last = [op |-> "none", outcome |-> "ok"]
    /\ pre = [vertices |-> {}, edges |-> {}, catalog |-> Provisioned(adapter),
              propagation |-> "settled"]
    /\ spc = 0
    /\ ncalls = 0

\* aload / load is called and calls the first loader
Load ==
    /\ status = "ready"
    /\ status' = "loading"
    /\ invoked' = <<LoadOrder[1]>>
    /\ UNCHANGED <<adapter, nrows, pc, vertices, edges, nextId, writes, log, ret, failures>>
    /\ UNCHANGED fnVars
    /\ UNCHANGED <<stmts, lifeVars>>

\* ArangodbTPCH: await collection.insert_many(data).  A document whose _key is
\* already in the collection is refused by itself and reported in the returned
\* list, which the loader drops; an edge document has no _key and gets a new one.
\* A request that fails as a whole raises.
ArangoInsertMany ==
    /\ adapter = "arango"
    /\ status = "loading"
    /\ Connected
    /\ \E ld \in {CurLoader} : \E op \in {ld[pc.k]} :
          /\ op.call = "insert_many"
          /\ Has(catalog, "collection", op.coll)
          /\ Send(op.call)
          /\ \/ /\ writes' = Append(writes, Written(op, "ok"))
                /\ IF op.coll = op.table
                   THEN /\ vertices' = vertices \cup
                              {ArangoVertexDoc(op.table, op.rows[j]) : j \in 1..Len(op.rows)}
                        /\ UNCHANGED <<edges, nextId>>
                   ELSE /\ edges' = edges \cup
                              {Rel(op.coll, ArangoEdgeDoc(op.coll, op.rows[j]).from,
                                   ArangoEdgeDoc(op.coll, op.rows[j]).to, nextId + j) :
                                  j \in 1..Len(op.rows)}
                        /\ nextId' = nextId + Len(op.rows)
                        /\ UNCHANGED vertices
                /\ Proceed(ld, 0, <<>>)
                /\ ret' = Returned(ld, 0)
                /\ UNCHANGED failures
             \/ /\ MayFail
                /\ failures' = failures + 1
                /\ writes' = Append(writes, Written(op, "raise"))
                /\ Abort
    /\ UNCHANGED <<adapter, nrows>>
    /\ UNCHANGED fnVars
    /\ UNCHANGED lifeVars

\* Neo4jTPCH._aload_batch: a session is opened for the call, then await
\* session.run(query, rows=batch) per batch; after the last batch the totals are
\* logged.  A failed query raises.
Neo4jRun ==
    /\ adapter = "neo4j"
    /\ status = "loading"
    /\ Connected
    /\ \E ld \in {CurLoader} : \E op \in {ld[pc.k]} :
          /\ op.call = "run"
          /\ stmts' = stmts \o (IF op.i = 0 THEN <<"session", "run">> ELSE <<"run">>)
          /\ \/ /\ writes' = Append(writes, Written(op, "ok"))
                /\ vertices' = Neo4jNodes(op.table, op.rows, vertices, nextId)
                /\ edges' = edges \cup Neo4jRels(op.table, op.rows, vertices, nextId)
                /\ nextId' = IF op.table = "lineitem" THEN nextId + Len(op.rows) ELSE nextId
                /\ Proceed(ld, 0, IF CallEnds(ld, 0)
                              THEN <<Msg("info", "Loaded", op.coll, nrows[op.table],
                                         total_batches(nrows[op.table], batch_size))>>
                              ELSE <<>>)
                /\ ret' = Returned(ld, 0)
                /\ UNCHANGED failures
             \/ /\ MayFail
                /\ failures' = failures + 1
                /\ writes' = Append(writes, Written(op, "raise"))
                /\ Abort
    /\ UNCHANGED <<adapter, nrows>>
    /\ UNCHANGED fnVars
    /\ UNCHANGED lifeVars

\* NebulagraphTPCH._load_batch_vertices / _load_batch_edges: a session of the pool is
\* opened with session_context, then session.execute(USE) and time.sleep(30).
\* A result that is not succeeded is logged and the batch loader returns without an
\* INSERT; an exception is not caught here.
NebulaUse ==
    /\ adapter = "nebula"
    /\ status = "loading"
    /\ Connected
    /\ \E ld \in {CurLoader} : \E op \in {ld[pc.k]} :
          /\ op.call = "USE"
          /\ \/ /\ Has(catalog, "space", "tpch")
                /\ stmts' = stmts \o <<"authenticate", "USE", "sleep">>
                /\ Proceed(ld, 0, <<>>)
                /\ ret' = Returned(ld, 0)
                /\ UNCHANGED <<failures, vertices, edges, nextId>>
             \/ /\ MayFail
                /\ failures' = failures + 1
                /\ stmts' = stmts \o <<"authenticate", "USE", "sleep">>
                /\ Proceed(ld, op.skip, <<Msg("error", "Failed to use space", op.coll, 0, 0)>>)
                /\ ret' = "None"
                /\ UNCHANGED <<vertices, edges, nextId>>
             \/ /\ MayFail
                /\ failures' = failures + 1
                /\ stmts' = stmts \o <<"authenticate", "USE">>
                /\ Abort
    /\ UNCHANGED <<adapter, nrows, writes>>
    /\ UNCHANGED fnVars
    /\ UNCHANGED lifeVars

\* what the try/except around session.execute(query) logs for the result of a batch
BatchMessages(op, result) ==
    CASE result = "ok" -> <<>>
      [] result = "error" ->
           <<Msg("error", "Error in batch", op.coll, (op.i \div batch_size) + 1, 0),
             Msg("error", "Query was", op.coll, 0, 0)>>
      [] result = "raise" ->
           <<Msg("error", "Exception in batch", op.coll, (op.i \div batch_size) + 1, 0)>>

\* _load_batch_vertices: session.execute(INSERT VERTEX tag(...) VALUES vid: (...), ...)
NebulaInsertVertex ==
    /\ adapter = "nebula"
    /\ status = "loading"
    /\ Connected
    /\ \E ld \in {CurLoader} : \E op \in {ld[pc.k]} :
          /\ op.call = "INSERT VERTEX"
          /\ Has(catalog, "tag", op.coll)
          /\ Send(op.call)
          /\ \E result \in {"ok", "error", "raise"} :
                /\ result # "ok" => MayFail
                /\ failures' = IF result = "ok" THEN failures ELSE failures + 1
                /\ writes' = Append(writes, Written(op, result))
                /\ vertices' =
                      IF result = "ok"
                      THEN vertices \cup
                              {[kind |-> op.coll, key |-> IntKey(row[op.src])] :
                                  row \in {NebulaRow(op.table, op.rows[j]) :
                                              j \in 1..Len(op.rows)}}
                      ELSE vertices
                /\ Proceed(ld, 0, BatchMessages(op, result))
                /\ ret' = Returned(ld, 0)
    /\ UNCHANGED <<adapter, nrows, edges, nextId>>
    /\ UNCHANGED fnVars
    /\ UNCHANGED lifeVars

\* _load_batch_edges: session.execute(INSERT EDGE type VALUES src -> dst: (...), ...)
NebulaInsertEdge ==
    /\ adapter = "nebula"
    /\ status = "loading"
    /\ Connected
    /\ \E ld \in {CurLoader} : \E op \in {ld[pc.k]} :
          /\ op.call = "INSERT EDGE"
          /\ Has(catalog, "edge", op.coll)
          /\ Send(op.call)
          /\ \E result \in {"ok", "error", "raise"} :
                /\ result # "ok" => MayFail
                /\ failures' = IF result = "ok" THEN failures ELSE failures + 1
                /\ writes' = Append(writes, Written(op, result))
                /\ edges' =
                      IF result = "ok"
                      THEN edges \cup
                              {Rel(op.coll, Vid(row[op.src]), Vid(row[op.dst]), 0) :
                                  row \in {NebulaRow(op.table, op.rows[j]) :
                                              j \in 1..Len(op.rows)}}
                      ELSE edges
                /\ Proceed(ld, 0, BatchMessages(op, result))
                /\ ret' = Returned(ld, 0)
    /\ UNCHANGED <<adapter, nrows, vertices, nextId>>
    /\ UNCHANGED fnVars
    /\ UNCHANGED lifeVars

Next ==
    \/ Load
    \/ ArangoInsertMany
    \/ Neo4jRun
    \/ NebulaUse
    \/ NebulaInsertVertex
    \/ NebulaInsertEdge

Spec == Init /\ [][Next]_vars

(***************************************************************************)
(* The batching loops and the key derivations as functions of their        *)
(* arguments alone.                                                        *)
(***************************************************************************)
\* a list of n distinct records, not in sorted order
Records(n) == [i \in 1..n |-> 2 * n - i]

BatchInputs ==
    {[data |-> Records(n), size |-> b] :
        n \in (0..MaxLen) \cup {6 * batch_size + 1}, b \in (1..MaxBatch) \cup {batch_size}}

KeyInputs == {[a |-> a, b |-> b] : a \in 1..MaxKey, b \in 1..MaxLine}

\* every order in which aload could await its eight loaders
OrderInputs ==
    {[i \in 1..Len(LoadOrder) |-> LoadOrder[p[i]]] : p \in Permutations(1..Len(LoadOrder))}

\* a variant that looks at the _from end of an edge only
EdgeEndsFromOnly(t) ==
    {ArangoEdgeDoc(op.coll, 1).from.kind :
        op \in {o \in Elems(ArangoLoader(t)) : o.coll # o.table}}

\* the vertex collections the "_from" and "_to" of the edge documents name that the loader
\* of table t inserts
EdgeEnds(t) ==
    UNION {{ArangoEdgeDoc(op.coll, 1).from.kind, ArangoEdgeDoc(op.coll, 1).to.kind} :
              op \in {o \in Elems(ArangoLoader(t)) : o.coll # o.table}}

\* the loaders that, awaited in this order, insert an edge before the loader of the
\* collection at one of its ends has run
Dangling(order) ==
    LET ends == [t \in Tables |-> EdgeEnds(t)]
    IN  {order[k] : k \in {i \in 1..Len(order) :
                             ~(ends[order[i]] \subseteq {order[j] : j \in 1..i})}}

InitFn ==
    /\ adapter = "none"
    /\ nrows = SmallData(1)
    /\ status = "fn_ready"
    /\ pc = [t |-> 1, k |-> 1]
    /\ invoked = <<>>
    /\ vertices = {}
    /\ edges = {}
    /\ nextId = 0
    /\ writes = <<>>
    /\ log = <<>>
    /\ ret = "nothing"
    /\ failures = 0
    /\ \/ fn \in {"batch", "arango_batch"} /\ fn_in \in BatchInputs
       \/ fn = "key" /\ fn_in \in KeyInputs
       \/ fn = "order" /\ fn_in \in OrderInputs
    /\ fn_out = <<>>
    /\ caller = "none"
    /\ env = "up"
    /\ client = "None"
    /\ catalog = {}
    /\ stmts = <<>>
    /\ last = [op |-> "none", outcome |-> "ok"]
    /\ pre = [vertices |-> {}, edges |-> {}, catalog |-> {}, propagation |-> "settled"]
    /\ spc = 0
    /\ ncalls = 0

\* the batch loop of _aload_batch / _load_batch_vertices / _load_batch_edges
ApplyBatches ==
    /\ status = "fn_ready"
    /\ fn = "batch"
    /\ \E bs \in {Batches(fn_in.data, fn_in.size)} :
          fn_out' = [k \in 1..Len(bs) |-> bs[k].batch]
    /\ status' = "fn_done"
    /\ UNCHANGED <<adapter, nrows, pc, invoked, vertices, edges, nextId, writes, log, ret,
                   failures, fn, fn_in, stmts>>
    /\ UNCHANGED lifeVars

\* the batch loop of ArangodbTPCH._aload_lineitem
ApplyArangoBatches ==
    /\ status = "fn_ready"
    /\ fn = "arango_batch"
    /\ \E bs \in {ArangoBatches(fn_in.data, fn_in.size)} :
          fn_out' = [k \in 1..Len(bs) |-> bs[k].batch]
    /\ status' = "fn_done"
    /\ UNCHANGED <<adapter, nrows, pc, invoked, vertices, edges, nextId, writes, log, ret,
                   failures, fn, fn_in, stmts>>
    /\ UNCHANGED lifeVars

\* the composite keys of a (partkey, suppkey) or (orderkey, linenumber) pair
ApplyKeys ==
    /\ status = "fn_ready"
    /\ fn = "key"
    /\ fn_out' = [key |-> CompositeKey(fn_in.a, fn_in.b),
                  vid |-> lineitem_id(fn_in.a, fn_in.b)]
    /\ status' = "fn_done"
    /\ UNCHANGED <<adapter, nrows, pc, invoked, vertices, edges, nextId, writes, log, ret,
                   failures, fn, fn_in, stmts>>
    /\ UNCHANGED lifeVars

\* aload with its loaders awaited in the order fn_in
ApplyOrder ==
    /\ status = "fn_ready"
    /\ fn = "order"
    /\ fn_out' = [dangling |-> Dangling(fn_in)]
    /\ status' = "fn_done"
    /\ UNCHANGED <<adapter, nrows, pc, invoked, vertices, edges, nextId, writes, log, ret,
                   failures, fn, fn_in, stmts>>
    /\ UNCHANGED lifeVars

NextFn == ApplyBatches \/ ApplyArangoBatches \/ ApplyKeys \/ ApplyOrder

SpecFn == InitFn /\ [][NextFn]_vars

(***************************************************************************)
(* The lifecycle of a client: the entry points (load.py, queries.py) and   *)
(* any program that calls the methods of the class.                        *)
(***************************************************************************)
Envs == {"up", "unreachable", "auth_rejected"}

Callers == {"load", "queries", "api"}

Ops == {"connect", "clear", "setup", "load", "graph", "drop", "query", "close"}

Repeat(x, n) == [i \in 1..n |-> x]

\* a variant of the scripts that provisions the schema before it clears
ScriptSetupFirst(a, kind) ==
    IF kind = "load" THEN <<"connect", "setup", "clear", "load", "close">>
    ELSE <<"connect", "query", "close">>

\* main() of <adapter>/load.py and <adapter>/queries.py, the calls on the client
Script(a, kind) ==
    CASE kind = "load" -> <<"connect", "clear", "setup", "load", "close">>
      [] kind = "queries" /\ a = "arango" ->
           <<"connect", "graph", "drop">> \o Repeat("query", 6) \o <<"close">>
      [] kind = "queries" /\ a = "neo4j" ->
           <<"connect", "drop">> \o Repeat("query", 8) \o <<"close">>
      [] kind = "queries" /\ a = "nebula" -> <<"connect", "query", "close">>
      [] OTHER -> <<>>

\* the backend refuses the request
Refused(a, step) ==
    /\ step.stmt \notin {"sleep", "session"}
    /\ \/ env = "unreachable"
       \/ env = "auth_rejected" /\ ~(a = "nebula" /\ step.stmt = "init")

\* a creation without an "if not exists" of something the catalogue has is an error
Conflict(step) ==
    /\ step.stmt \in {"create_database", "create_collection", "create_graph",
                      "create_edge_definition"}
    /\ \E it \in step.add \cap catalog :
          step.stmt = "create_edge_definition" => it.k = "edgedef"

\* how the steps of one call may fail: per step "none" or the way its failure ends
Faults(a, steps) ==
    IF env # "up"
    THEN {[i \in 1..Len(steps) |->
              IF ~Refused(a, steps[i]) THEN "none"
              ELSE IF "raise" \in steps[i].onfail THEN "raise" ELSE "log"]}
    ELSE LET sound == [i \in 1..Len(steps) |-> IF Conflict(steps[i]) THEN "raise" ELSE "none"]
         IN  {sound}
             \cup IF MayFail
                  THEN UNION {{[sound EXCEPT ![k] = m] : m \in steps[k].onfail} :
                                 k \in 1..Len(steps)}
                  ELSE {}

\* the statements sent and the effects made when the steps run under a fault
Exec(steps, fault) ==
    LET n == Len(steps)
        raising == {k \in 1..n : fault[k] = "raise"}
        stop == IF raising = {} THEN n ELSE CHOOSE k \in raising : \A j \in raising : k <= j
        skipped == UNION {(k + 1)..(k + steps[k].skip) : k \in {j \in 1..n : fault[j] = "log"}}
        sent == SelectSeq([i \in 1..n |-> i], LAMBDA i : i <= stop /\ i \notin skipped)
        made == {i \in Elems(sent) : fault[i] = "none"}
    IN  [stmts  |-> [j \in 1..Len(sent) |-> steps[sent[j]].stmt],
         add    |-> UNION {steps[i].add : i \in made},
         del    |-> UNION {steps[i].del : i \in made},
         wipe   |-> UNION {steps[i].wipe : i \in made},
         raised |-> raising # {},
         injected |-> IF env = "up" /\ \E k \in 1..n : fault[k] # "none" /\ ~Conflict(steps[k])
                      THEN 1 ELSE 0]

\* tags and edge types live in the space
Normalize(cat) ==
    IF Has(cat, "space", "tpch") THEN cat ELSE cat \ SpaceItems

\* what a method does before its first request, by the state of the client object
Precondition(a, op) ==
    CASE a = "nebula" /\ op = "drop" -> "pass"
      [] client = "None" ->
           IF a = "nebula" /\ op = "query" THEN "NotConnected" ELSE "AttributeError"
      [] client = "failed" -> IF a = "arango" THEN "AttributeError" ELSE "BackendError"
      [] client = "closed" -> "BackendError"
      [] OTHER -> "pass"

\* the caller makes the call next
MayCall(op) ==
    /\ status = "idle"
    /\ IF caller = "api" THEN ncalls < MaxCalls
       ELSE /\ spc <= Len(Script(adapter, caller))
            /\ Script(adapter, caller)[spc] = op
            /\ spc = 1 \/ last.outcome = "ok"

Called(op, outcome) ==
    /\ last' = [op |-> op, outcome |-> outcome]
    /\ pre' = Snapshot
    /\ spc' = IF caller = "api" THEN spc ELSE spc + 1
    /\ ncalls' = ncalls + 1

\* the steps of the call ran under a fault
Ran(op, r) ==
    /\ stmts' = r.stmts
    /\ catalog' = Normalize((catalog \cup r.add) \ r.del)
    /\ vertices' = {v \in vertices : v.kind \notin r.wipe}
    /\ edges' = {e \in edges : e.rel \notin r.wipe}
    /\ failures' = failures + r.injected
    /\ Called(op, IF r.raised THEN "BackendError" ELSE "ok")

\* what no lifecycle method changes
fixedVars == <<adapter, nrows, caller, env, fn, fn_in, fn_out>>

\* the state of a load run
runVars == <<status, pc, invoked, nextId, writes, log, ret>>

InitLife ==
    /\ adapter \in Adapters
    /\ nrows = SmallData(1)
    /\ status = "idle"
    /\ pc = [t |-> 1, k |-> 1]
    /\ invoked = <<>>
    /\ vertices = {}
    /\ edges = {}
    /\ nextId = 0
    /\ writes = <<>>
    /\ log = <<>>
    /\ ret = "nothing"
    /\ failures = 0
    /\ fn = "none"
    /\ fn_in = <<>>
    /\ fn_out = <<>>
    /\ caller \in Callers
    /\ env \in Envs
    /\ client = "None"
    /\ catalog = {}
    /\ stmts = <<>>
    /\ last = [op |-> "none", outcome |-> "ok"]
    /\ pre = [vertices |-> {}, edges |-> {}, catalog |-> {}, propagation |-> "settled"]
    /\ spc = 1
    /\ ncalls = 0

\* aconnect / connect: the client object is assigned before the first request
Connect ==
    /\ MayCall("connect")
    /\ \E steps \in {Steps(adapter, "connect", catalog)} :
          \E f \in Faults(adapter, steps) : \E r \in {Exec(steps, f)} :
             /\ Ran("connect", r)
             /\ client' = CASE adapter = "neo4j"  -> "open"
                            [] adapter = "nebula" -> IF r.raised THEN "failed" ELSE "open"
                            [] adapter = "arango" ->
                                 IF ~r.raised THEN "open"
                                 ELSE IF client = "None" THEN "failed" ELSE client
    /\ UNCHANGED <<fixedVars, runVars>>

\* asetup, aclear, agraph, adrop, arun and their NebulaGraph counterparts
Method(op) ==
    /\ IF Precondition(adapter, op) # "pass"
       THEN /\ stmts' = <<>>
            /\ Called(op, Precondition(adapter, op))
            /\ UNCHANGED <<catalog, vertices, edges, failures>>
       ELSE \E steps \in {Steps(adapter, op, catalog)} :
               \E f \in Faults(adapter, steps) : \E r \in {Exec(steps, f)} : Ran(op, r)
    /\ UNCHANGED <<fixedVars, runVars, client>>

Setup == MayCall("setup") /\ Method("setup")

Clear == MayCall("clear") /\ Method("clear")

\* only ArangodbTPCH has agraph
Graph == MayCall("graph") /\ adapter = "arango" /\ Method("graph")

Drop == MayCall("drop") /\ Method("drop")

Query == MayCall("query") /\ Method("query")

\* aclose: if self.client / if self.driver; close: self.connection.close()
Close ==
    /\ MayCall("close")
    /\ stmts' = <<>>
    /\ IF client = "None"
       THEN /\ Called("close", IF adapter = "nebula" THEN "AttributeError" ELSE "ok")
            /\ UNCHANGED client
       ELSE /\ Called("close", "ok")
            /\ client' = "closed"
    /\ UNCHANGED <<fixedVars, runVars, catalog, vertices, edges, failures>>

\* aload / load is called: the first loader fails on a client object that cannot be
\* used, before any request; otherwise the loaders run
CallLoad ==
    /\ MayCall("load")
    /\ stmts' = <<>>
    /\ IF Precondition(adapter, "load") # "pass"
       THEN /\ Called("load", Precondition(adapter, "load"))
            /\ UNCHANGED runVars
       ELSE /\ Called("load", "running")
            /\ status' = "loading"
            /\ pc' = [t |-> 1, k |-> 1]
            /\ invoked' = <<LoadOrder[1]>>
            /\ writes' = <<>>
            /\ log' = <<>>
            /\ ret' = "nothing"
            /\ UNCHANGED nextId
    /\ UNCHANGED <<fixedVars, client, catalog, vertices, edges, failures>>

\* the backend refuses the first request of the load: session.run / session_context
LoadRefused ==
    /\ status = "loading"
    /\ client = "open"
    /\ env # "up"
    /\ stmts' = stmts \o CASE adapter = "nebula" -> <<"authenticate">>
                        [] adapter = "neo4j"  -> <<"session", CurLoader[pc.k].call>>
                        [] OTHER              -> <<CurLoader[pc.k].call>>
    /\ Abort
    /\ UNCHANGED <<adapter, nrows, writes, failures>>
    /\ UNCHANGED fnVars
    /\ UNCHANGED lifeVars

\* insert_many on a collection the database does not have raises
ArangoInsertRefused ==
    /\ adapter = "arango"
    /\ status = "loading"
    /\ Connected
    /\ \E op \in {CurLoader[pc.k]} :
          /\ ~Has(catalog, "collection", op.coll)
          /\ Send(op.call)
          /\ writes' = Append(writes, Written(op, "raise"))
    /\ Abort
    /\ UNCHANGED <<adapter, nrows, failures>>
    /\ UNCHANGED fnVars
    /\ UNCHANGED lifeVars

\* USE of a space that does not exist: the result is not succeeded
NebulaUseRefused ==
    /\ adapter = "nebula"
    /\ status = "loading"
    /\ Connected
    /\ ~Has(catalog, "space", "tpch")
    /\ \E ld \in {CurLoader} : \E op \in {ld[pc.k]} :
          /\ op.call = "USE"
          /\ stmts' = stmts \o <<"authenticate", "USE", "sleep">>
          /\ Proceed(ld, op.skip, <<Msg("error", "Failed to use space", op.coll, 0, 0)>>)
    /\ ret' = "None"
    /\ UNCHANGED <<adapter, nrows, writes, failures, vertices, edges, nextId>>
    /\ UNCHANGED fnVars
    /\ UNCHANGED lifeVars

\* INSERT of a tag or edge type the space does not have: the result is not succeeded
NebulaInsertRefused ==
    /\ adapter = "nebula"
    /\ status = "loading"
    /\ Connected
    /\ \E ld \in {CurLoader} : \E op \in {ld[pc.k]} :
          /\ \/ op.call = "INSERT VERTEX" /\ ~Has(catalog, "tag", op.coll)
             \/ op.call = "INSERT EDGE" /\ ~Has(catalog, "edge", op.coll)
          /\ Send(op.call)
          /\ writes' = Append(writes, Written(op, "error"))
          /\ Proceed(ld, 0, BatchMessages(op, "error"))
          /\ ret' = Returned(ld, 0)
    /\ UNCHANGED <<adapter, nrows, failures, vertices, edges, nextId>>
    /\ UNCHANGED fnVars
    /\ UNCHANGED lifeVars

\* aload / load returns or the exception leaves it
LoadReturns ==
    /\ caller # "none"
    /\ status \in {"done", "aborted"}
    /\ status' = "idle"
    /\ last' = [op |-> "load", outcome |-> IF status = "done" THEN "ok" ELSE "BackendError"]
    /\ UNCHANGED <<adapter, nrows, pc, invoked, vertices, edges, nextId, writes, log, ret,
                   failures, stmts, caller, env, client, catalog, pre, spc, ncalls>>
    /\ UNCHANGED fnVars

NextLife ==
    \/ Connect
    \/ Setup
    \/ Clear
    \/ Graph
    \/ Drop
    \/ Query
    \/ Close
    \/ CallLoad
    \/ LoadRefused
    \/ ArangoInsertRefused
    \/ NebulaUseRefused
    \/ NebulaInsertRefused
    \/ LoadReturns
    \/ ArangoInsertMany
    \/ Neo4jRun
    \/ NebulaUse
    \/ NebulaInsertVertex
    \/ NebulaInsertEdge

SpecLife == InitLife /\ [][NextLife]_vars

(***************************************************************************)
(* Vocabulary of the properties.                                           *)
(***************************************************************************)
\* the table order the specification states
StatedOrder ==
    <<"region", "nation", "supplier", "customer", "part", "partsupp", "orders", "lineitem">>

Position(t) == CHOOSE i \in 1..Len(StatedOrder) : StatedOrder[i] = t

\* the tables whose vertices the edges made from a row of table t point to or from,
\* besides t itself (the nine relationships)
FKTargets(t) ==
    CASE t = "nation"   -> {"region"}
      [] t = "supplier" -> {"nation"}
      [] t = "customer" -> {"nation"}
      [] t = "partsupp" -> {"part", "supplier"}
      [] t = "orders"   -> {"customer"}
      [] t = "lineitem" -> {"orders", "part", "supplier"}
      [] OTHER          -> {}

\* the bulk write w carries vertex records / edge records
CarriesVertices(w) ==
    CASE w.call = "insert_many"   -> w.coll = w.table
      [] w.call = "run"           -> w.table # "partsupp"
      [] w.call = "INSERT VERTEX" -> TRUE
      [] OTHER                    -> FALSE

CarriesEdges(w) ==
    CASE w.call = "insert_many" -> w.coll # w.table
      [] w.call = "run"         -> FKTargets(w.table) # {}
      [] w.call = "INSERT EDGE" -> TRUE
      [] OTHER                  -> FALSE

\* the loaders that have returned
LoaderReturned(i) == i < pc.t

\* the bulk-write call `op` is on record
Issued(op) ==
    \E p \in DOMAIN writes :
        /\ writes[p].table = op.table
        /\ writes[p].call = op.call
        /\ writes[p].coll = op.coll
        /\ writes[p].first = op.rows[1]
        /\ writes[p].n = Len(op.rows)

UseFailed(coll) == \E m \in DOMAIN log : log[m].msg = "Failed to use space" /\ log[m].table = coll

FailedChunks == Cardinality({p \in DOMAIN writes : writes[p].result # "ok"})

C3_WritesBounded == \A p \in DOMAIN writes : writes[p].n <= 1000

(***************************************************************************)
(* C4.  The batch loops split a list of n records into ceil(n / size)      *)
(* consecutive batches, all of `size` records but possibly the last, which *)
(* has n mod size when that is not zero; record j of batch k is record     *)
(* (k - 1) * size + j of the list; 6001 records in batches of 1000 make 7  *)
(* batches, no record makes none.                                          *)
(***************************************************************************)
C4_BatchesPartition ==
    (status = "fn_done" /\ fn \in {"batch", "arango_batch"}) =>
        LET n == Len(fn_in.data)
            size == fn_in.size
            count == CHOOSE c \in 0..n : c * size >= n /\ (c = 0 \/ (c - 1) * size < n)
        IN  /\ Len(fn_out) = count
            /\ \A k \in 1..Len(fn_out) :
                  /\ Len(fn_out[k]) =
                        IF k < count \/ n % size = 0 THEN size ELSE n % size
                  /\ \A j \in 1..Len(fn_out[k]) : fn_out[k][j] = fn_in.data[(k - 1) * size + j]
            /\ (n = 6001 /\ size = 1000) =>
                  /\ Len(fn_out) = 7
                  /\ \A k \in 1..6 : Len(fn_out[k]) = 1000
                  /\ Len(fn_out[7]) = 1
            /\ n = 0 => fn_out = <<>>

\* 6001 records in batches of 1000
C4_Witness ==
    /\ status = "fn_done"
    /\ fn = "batch"
    /\ Len(fn_in.data) = 6001
    /\ fn_in.size = 1000
    /\ Len(fn_out) = 7

(***************************************************************************)
(* C5.  As claimed: a rejected or raising bulk write does not stop the     *)
(* load.                                                                   *)
(***************************************************************************)
C5_FailedChunkDoesNotStop ==
    (\E p \in DOMAIN writes : writes[p].result # "ok") => status # "aborted"

\* a load that went through every loader with no backend failure
CleanLoad == status = "done" /\ failures = 0

\* the vertex kind of a table: the collection in ArangoDB, the label or tag elsewhere
KindOf(t) ==
    IF adapter = "arango" THEN t
    ELSE CASE t = "region"   -> "Region"
           [] t = "nation"   -> "Nation"
           [] t = "supplier" -> "Supplier"
           [] t = "customer" -> "Customer"
           [] t = "part"     -> "Part"
           [] t = "partsupp" -> "PartSupp"
           [] t = "orders"   -> "Order"
           [] t = "lineitem" -> "LineItem"

VerticesOf(kind) == {v \in vertices : v.kind = kind}

EdgesOf(rel) == {e \in edges : e.rel = rel}

\* the single-column primary key of row i of table t
PrimaryKey(t, i) ==
    CASE t = "region"   -> Row(t, i).regionkey
      [] t = "nation"   -> Row(t, i).nationkey
      [] t = "supplier" -> Row(t, i).suppkey
      [] t = "customer" -> Row(t, i).custkey
      [] t = "part"     -> Row(t, i).partkey
      [] t = "orders"   -> Row(t, i).orderkey

\* the key the specification states for row i of table t
StatedKey(t, i) ==
    CASE t = "partsupp" -> ToStr(Row(t, i).partkey) \o <<"_">> \o ToStr(Row(t, i).suppkey)
      [] t = "lineitem" -> ToStr(Row(t, i).orderkey) \o <<"_">> \o ToStr(Row(t, i).linenumber)
      [] OTHER          -> ToStr(PrimaryKey(t, i))

(***************************************************************************)
(* C6.  As claimed: a load in which chunks failed does not end by          *)
(* reporting that all tables were loaded successfully.                     *)
(***************************************************************************)
C6_PartialLoadReported ==
    (status = "done" /\ FailedChunks > 0) =>
        log[Len(log)].msg # "All tables loaded successfully"

(***************************************************************************)
(* C7.  As claimed: in every adapter the vertex written for a row has the  *)
(* key str(partkey) + "_" + str(suppkey) for partsupp, str(orderkey) + "_" *)
(* + str(linenumber) for lineitem, and the stringified primary key for     *)
(* every other table.                                                      *)
(***************************************************************************)
C7_StatedKeysWritten ==
    CleanLoad =>
        \A t \in Tables : \A i \in 1..nrows[t] :
            [kind |-> KindOf(t), key |-> StrKey(StatedKey(t, i))] \in vertices

(***************************************************************************)
(* C7, amended.  The ArangoDB adapter writes these keys (orderkey 1,       *)
(* linenumber 3 gives "1_3").  The NebulaGraph adapter writes the integer  *)
(* primary key as the vertex id and, for a lineitem row, the integer       *)
(* orderkey * 10^4 + linenumber; the Neo4j adapter merges on the integer   *)
(* primary key and creates LineItem nodes without a key; neither writes a  *)
(* partsupp vertex.                                                        *)
(***************************************************************************)
C7_KeysWritten ==
    CleanLoad =>
        /\ adapter = "arango" =>
              /\ \A t \in Tables : \A i \in 1..nrows[t] :
                    [kind |-> t, key |-> StrKey(StatedKey(t, i))] \in vertices
              /\ nrows["lineitem"] >= 3 =>
                    [kind |-> "lineitem", key |-> StrKey(<<"1", "_", "3">>)] \in vertices
        /\ adapter \in {"neo4j", "nebula"} =>
              /\ \A t \in Tables \ {"partsupp", "lineitem"} : \A i \in 1..nrows[t] :
                    [kind |-> KindOf(t), key |-> IntKey(PrimaryKey(t, i))] \in vertices
              /\ VerticesOf("PartSupp") = {}
        /\ adapter = "neo4j" => \A v \in VerticesOf("LineItem") : v.key.t = "node"
        /\ adapter = "nebula" =>
              \A i \in 1..nrows["lineitem"] :
                  [kind |-> "LineItem",
                   key |-> IntKey(Row("lineitem", i).orderkey * 10000
                                  + Row("lineitem", i).linenumber)] \in vertices

\* ArangoDB has stored the lineitem vertex "1_3"
C7_Witness ==
    /\ CleanLoad
    /\ adapter = "arango"
    /\ [kind |-> "lineitem", key |-> StrKey(<<"1", "_", "3">>)] \in vertices

(***************************************************************************)
(* C8.  The composite keys are injective: within keys 1..MaxKey and line   *)
(* numbers 1..MaxLine, no other pair has the string key "a_b" of a pair    *)
(* and no other pair has its integer id int(str(a) + b padded to 4).       *)
(***************************************************************************)
C8_CompositeKeysInjective ==
    (status = "fn_done" /\ fn = "key") =>
        \A c \in 1..MaxKey : \A d \in 1..MaxLine :
            /\ CompositeKey(c, d) = fn_out.key => (c = fn_in.a /\ d = fn_in.b)
            /\ lineitem_id(c, d) = fn_out.vid => (c = fn_in.a /\ d = fn_in.b)

\* the keys of (11, 1), which differ from those of (1, 11)
C8_Witness ==
    /\ status = "fn_done"
    /\ fn = "key"
    /\ fn_in = [a |-> 11, b |-> 1]
    /\ fn_out.key = <<"1", "1", "_", "1">>
    /\ fn_out.vid = 110001

(***************************************************************************)
(* C9.  As claimed: after a clean load every table has as many vertices of *)
(* its kind as its file has rows, in every adapter.                        *)
(***************************************************************************)
C9_VertexCounts ==
    CleanLoad => \A t \in Tables : Cardinality(VerticesOf(KindOf(t))) = nrows[t]

(***************************************************************************)
(* C9, amended.  After a clean load every table has as many vertices of    *)
(* its kind as its file has rows, except partsupp in the Neo4j and         *)
(* NebulaGraph adapters, which store no partsupp vertex and one SUPPLIES   *)
(* edge per partsupp row; the region vertices have the keys 0..n-1 (as     *)
(* strings in ArangoDB).                                                   *)
(***************************************************************************)
C9_VertexCountsButPartsupp ==
    CleanLoad =>
        /\ \A t \in Tables :
              (adapter = "arango" \/ t # "partsupp") =>
                  Cardinality(VerticesOf(KindOf(t))) = nrows[t]
        /\ adapter # "arango" =>
              /\ VerticesOf(KindOf("partsupp")) = {}
              /\ Cardinality(EdgesOf("SUPPLIES")) = nrows["partsupp"]
        /\ VerticesOf(KindOf("region")) =
              {[kind |-> KindOf("region"),
                key |-> IF adapter = "arango" THEN StrKey(ToStr(k)) ELSE IntKey(k)] :
                  k \in 0..(nrows["region"] - 1)}

\* a clean Neo4j load of an orders file of two batches
C9_Witness ==
    /\ CleanLoad
    /\ adapter = "neo4j"
    /\ nrows["orders"] > batch_size
    /\ Cardinality(VerticesOf("Order")) = nrows["orders"]

(***************************************************************************)
(* C10.  As claimed: after a clean load every relationship has as many     *)
(* stored edges as source rows, and both ends of every stored edge are     *)
(* stored vertices.                                                        *)
(***************************************************************************)
Present(end) ==
    IF adapter = "nebula" THEN \E v \in vertices : v.key = end.key ELSE end \in vertices

C10_EdgeCounts ==
    CleanLoad =>
        /\ adapter = "arango" =>
              /\ Cardinality(EdgesOf("nation_region")) = nrows["nation"]
              /\ Cardinality(EdgesOf("supplier_nation")) = nrows["supplier"]
              /\ Cardinality(EdgesOf("customer_nation")) = nrows["customer"]
              /\ Cardinality(EdgesOf("partsupp_part")) = nrows["partsupp"]
              /\ Cardinality(EdgesOf("partsupp_supplier")) = nrows["partsupp"]
              /\ Cardinality(EdgesOf("customer_orders")) = nrows["orders"]
              /\ Cardinality(EdgesOf("order_lineitems")) = nrows["lineitem"]
              /\ Cardinality(EdgesOf("lineitem_part")) = nrows["lineitem"]
              /\ Cardinality(EdgesOf("lineitem_supplier")) = nrows["lineitem"]
        /\ adapter = "neo4j" =>
              /\ Cardinality(EdgesOf("BELONGS_TO")) = nrows["nation"]
              /\ Cardinality({e \in EdgesOf("LOCATED_IN") : e.from.kind = "Supplier"})
                    = nrows["supplier"]
              /\ Cardinality({e \in EdgesOf("LOCATED_IN") : e.from.kind = "Customer"})
                    = nrows["customer"]
        /\ adapter = "nebula" =>
              /\ Cardinality(EdgesOf("LOCATED_IN")) = nrows["nation"]
              /\ Cardinality(EdgesOf("BELONGS_TO")) = nrows["supplier"] + nrows["customer"]
        /\ adapter \in {"neo4j", "nebula"} =>
              /\ Cardinality(EdgesOf("SUPPLIES")) = nrows["partsupp"]
              /\ Cardinality(EdgesOf("PLACED")) = nrows["orders"]
              /\ Cardinality(EdgesOf("CONTAINS")) = nrows["lineitem"]
              /\ Cardinality(EdgesOf("OF_PART")) = nrows["lineitem"]
              /\ Cardinality(EdgesOf("SUPPLIED_BY")) = nrows["lineitem"]
        /\ \A e \in edges : Present(e.from) /\ Present(e.to)

(***************************************************************************)
(* C11.  As claimed: every adapter stores the nine relationships           *)
(* nation->region, supplier->nation, customer->nation, customer->order,    *)
(* order->lineitem, lineitem->part, lineitem->supplier, partsupp->part and *)
(* partsupp->supplier, one edge per row of the referencing table, and no   *)
(* edge between other kinds or in the other direction.                     *)
(***************************************************************************)
\* the nine relationships: the tables of the two ends and the table whose rows carry
\* the foreign key
Relationships ==
    {[from |-> "nation",   to |-> "region",   src |-> "nation"],
     [from |-> "supplier", to |-> "nation",   src |-> "supplier"],
     [from |-> "customer", to |-> "nation",   src |-> "customer"],
     [from |-> "customer", to |-> "orders",   src |-> "orders"],
     [from |-> "orders",   to |-> "lineitem", src |-> "lineitem"],
     [from |-> "lineitem", to |-> "part",     src |-> "lineitem"],
     [from |-> "lineitem", to |-> "supplier", src |-> "lineitem"],
     [from |-> "partsupp", to |-> "part",     src |-> "partsupp"],
     [from |-> "partsupp", to |-> "supplier", src |-> "partsupp"]}

\* the kinds of the vertex at one end of an edge; a NebulaGraph vertex id carries every
\* tag that was inserted under it
EndKinds(end) ==
    IF adapter = "nebula" THEN {v.kind : v \in {w \in vertices : w.key = end.key}}
    ELSE {end.kind}

Joins(e, r) == KindOf(r.from) \in EndKinds(e.from) /\ KindOf(r.to) \in EndKinds(e.to)

C11_NineRelationships ==
    CleanLoad =>
        /\ \A r \in Relationships :
              Cardinality({e \in edges : Joins(e, r)}) = nrows[r.src]
        /\ \A e \in edges : \E r \in Relationships : Joins(e, r)

(***************************************************************************)
(* C11, amended.  ArangoDB stores the nine relationships as claimed.       *)
(* Neo4j stores the seven that do not involve partsupp as claimed and, for *)
(* every partsupp row, one SUPPLIES edge supplier->part.  NebulaGraph      *)
(* stores, for every row and foreign key, the edge of the relationship's   *)
(* type from the source id to the target id in the claimed direction       *)
(* (SUPPLIES supplier->part for partsupp); its edges are identified by     *)
(* type and the two integer ids, so rows of different tables may share one.*)
(***************************************************************************)
\* the edges NebulaGraph is to hold, as <<type, source id, target id>>
NebulaExpected ==
    LET R(t, i) == Row(t, i)
        li(i) == R("lineitem", i).orderkey * 10000 + R("lineitem", i).linenumber
    IN  {<<"LOCATED_IN", R("nation", i).nationkey, R("nation", i).regionkey>> :
            i \in 1..nrows["nation"]}
        \cup {<<"BELONGS_TO", R("supplier", i).suppkey, R("supplier", i).nationkey>> :
                 i \in 1..nrows["supplier"]}
        \cup {<<"BELONGS_TO", R("customer", i).custkey, R("customer", i).nationkey>> :
                 i \in 1..nrows["customer"]}
        \cup {<<"SUPPLIES", R("partsupp", i).suppkey, R("partsupp", i).partkey>> :
                 i \in 1..nrows["partsupp"]}
        \cup {<<"PLACED", R("orders", i).custkey, R("orders", i).orderkey>> :
                 i \in 1..nrows["orders"]}
        \cup {<<"CONTAINS", R("lineitem", i).orderkey, li(i)>> : i \in 1..nrows["lineitem"]}
        \cup {<<"OF_PART", li(i), R("lineitem", i).partkey>> : i \in 1..nrows["lineitem"]}
        \cup {<<"SUPPLIED_BY", li(i), R("lineitem", i).suppkey>> : i \in 1..nrows["lineitem"]}

C11_RelationshipsLoaded ==
    CleanLoad =>
        /\ adapter = "arango" =>
              /\ \A r \in Relationships :
                    Cardinality({e \in edges : e.from.kind = r.from /\ e.to.kind = r.to})
                       = nrows[r.src]
              /\ \A e \in edges :
                    \E r \in Relationships : e.from.kind = r.from /\ e.to.kind = r.to
        /\ adapter = "neo4j" =>
              LET Stored == {r \in Relationships : r.src # "partsupp"}
                  Of(r) == {e \in edges : /\ e.from.kind = KindOf(r.from)
                                          /\ e.to.kind = KindOf(r.to)}
                  Supplies == {e \in edges : /\ e.rel = "SUPPLIES"
                                             /\ e.from.kind = "Supplier"
                                             /\ e.to.kind = "Part"}
              IN  /\ \A r \in Stored : Cardinality(Of(r)) = nrows[r.src]
                  /\ Cardinality(Supplies) = nrows["partsupp"]
                  /\ \A e \in edges : e \in Supplies \/ \E r \in Stored : e \in Of(r)
        /\ adapter = "nebula" =>
              {<<e.rel, e.from.key.n, e.to.key.n>> : e \in edges} = NebulaExpected

\* Neo4j has stored a partsupp row as a SUPPLIES edge from its supplier to its part
C11_Witness ==
    /\ CleanLoad
    /\ adapter = "neo4j"
    /\ [rel |-> "SUPPLIES", from |-> [kind |-> "Supplier", key |-> IntKey(1)],
        to |-> [kind |-> "Part", key |-> IntKey(1)], id |-> 0] \in edges

(***************************************************************************)
(* Vocabulary of the lifecycle properties.                                 *)
(***************************************************************************)
\* the last lifecycle call was op and has ended this way
Ended(op, outcome) == status = "idle" /\ last = [op |-> op, outcome |-> outcome]

\* the number of vertices of a kind / edges of a type in a set
CountKind(V, kind) == Cardinality({v \in V : v.kind = kind})

CountRel(E, rel) == Cardinality({e \in E : e.rel = rel})

(***************************************************************************)
(* C12.  With the Neo4j adapter, a second aload after a first successful   *)
(* aload on a namespace that was not cleared leaves the number of vertices *)
(* of every kind and of edges of every relationship unchanged.             *)
(***************************************************************************)
C12_ReloadKeepsCounts ==
    (/\ adapter = "neo4j"
     /\ Ended("load", "ok")
     /\ failures = 0
     /\ pre.vertices # {}) =>
        /\ \A kind \in AllKinds : CountKind(vertices, kind) = CountKind(pre.vertices, kind)
        /\ \A rel \in AllKinds : CountRel(edges, rel) = CountRel(pre.edges, rel)

(***************************************************************************)
(* C13.  Schema provisioning is idempotent in every adapter: setup /       *)
(* asetup called on a connected client against a namespace that an         *)
(* earlier setup has provisioned raises no error and leaves the namespace, *)
(* the vertex and edge kinds and the indices as they were (no backend      *)
(* failure occurring).                                                     *)
(***************************************************************************)
C13_SetupIdempotent ==
    (/\ status = "idle"
     /\ last.op = "setup"
     /\ client = "open"
     /\ env = "up"
     /\ failures = 0
     /\ Provisioned(adapter) \subseteq pre.catalog) =>
        /\ last.outcome = "ok"
        /\ catalog = pre.catalog

\* asetup has returned from its second call in a row on ArangoDB, having looked for
\* each collection and added each index again
C13_Witness ==
    /\ Ended("setup", "ok")
    /\ adapter = "arango"
    /\ failures = 0
    /\ Provisioned(adapter) \subseteq pre.catalog
    /\ catalog = Provisioned(adapter)
    /\ Len(stmts) = Len(VERTICES) + Len(EDGES) + Len(IndexedCollections) + Len(INDICES)

(***************************************************************************)
(* C14.  After clear / aclear returns, no vertex and no edge remains in    *)
(* the namespace, whatever setup, load and graph-creation calls came       *)
(* before; and clear on a namespace without data returns without error     *)
(* and leaves it without data.                                             *)
(***************************************************************************)
C14_ClearEmpties ==
    /\ Ended("clear", "ok") => vertices = {} /\ edges = {}
    /\ (/\ status = "idle"
        /\ last.op = "clear"
        /\ client = "open"
        /\ env = "up"
        /\ failures = 0
        /\ pre.vertices = {}
        /\ pre.edges = {}) => last.outcome = "ok"

(***************************************************************************)
(* C15.  close / aclose never fails: called before connect, after a        *)
(* connect that failed, or again after a close, it returns without error   *)
(* and leaves the client released.                                         *)
(***************************************************************************)
C15_CloseNeverFails ==
    (status = "idle" /\ last.op = "close") =>
        last.outcome = "ok" /\ client \in {"None", "closed"}

(***************************************************************************)
(* C16.  In every adapter, load called before the schema is provisioned    *)
(* and the query operation called before a successful connect fail with    *)
(* an explicit precondition error and send no statement to the backend.    *)
(***************************************************************************)
\* the errors a method raises itself for a call made too early
PreconditionErrors == {"NotConnected"}

C16_EarlyCallsRejected ==
    /\ (/\ status = "idle"
        /\ last.op = "query"
        /\ client \in {"None", "failed"}) =>
           last.outcome \in PreconditionErrors /\ stmts = <<>>
    /\ (/\ status = "idle"
        /\ last.op = "load"
        /\ ~(Provisioned(adapter) \subseteq pre.catalog)) =>
           last.outcome \in PreconditionErrors /\ stmts = <<>>

\* an entry point runs, and the lifecycle calls it has made so far
Scripted == caller \in {"load", "queries"}

CallsMade == SubSeq(Script(adapter, caller), 1, spc - 1)

\* main() has returned or an exception has left it
Exited ==
    /\ Scripted
    /\ status = "idle"
    /\ \/ spc > Len(Script(adapter, caller))
       \/ spc > 1 /\ last.outcome # "ok"

(***************************************************************************)
(* C17.  In every entry point, once connect has been called, close is      *)
(* called on every exit path, also when clear, setup, load or a query      *)
(* raises: the script does not end after a connect without a close.        *)
(***************************************************************************)
C17_CloseOnEveryExit ==
    (Exited /\ spc > 1) => \E i \in 1..Len(CallsMade) : CallsMade[i] = "close"

(***************************************************************************)
(* C18.  As claimed: the lifecycle calls an entry point makes are a path   *)
(* of Unconnected -> Connected -> SchemaProvisioned -> Loaded ->           *)
(* (Cleared -> SchemaProvisioned | Unconnected): clear is called only from *)
(* Loaded, provisioning only from Connected or Cleared, load only from     *)
(* SchemaProvisioned.                                                      *)
(***************************************************************************)
\* a machine is a set of <<phase, call, next phase>>; graph creation, index dropping and
\* queries are no lifecycle transitions
Unphased(phases) == {<<p, op, p>> : p \in phases, op \in {"graph", "drop", "query"}}

StatedMachine ==
    {<<"Unconnected", "connect", "Connected">>,
     <<"Connected", "setup", "SchemaProvisioned">>,
     <<"Cleared", "setup", "SchemaProvisioned">>,
     <<"SchemaProvisioned", "load", "Loaded">>,
     <<"Loaded", "clear", "Cleared">>,
     <<"Loaded", "close", "Unconnected">>}
    \cup Unphased({"Connected", "SchemaProvisioned", "Loaded", "Cleared"})

\* the phase the first n calls lead to, "stuck" once a call has no transition
RECURSIVE PhaseAfter(_, _, _)
PhaseAfter(machine, calls, n) ==
    IF n = 0 THEN "Unconnected"
    ELSE LET p == PhaseAfter(machine, calls, n - 1)
             ts == {t \in machine : t[1] = p /\ t[2] = calls[n]}
         IN  IF ts = {} THEN "stuck" ELSE (CHOOSE t \in ts : TRUE)[3]

C18_StatedMachine ==
    Scripted => PhaseAfter(StatedMachine, CallsMade, Len(CallsMade)) # "stuck"

(***************************************************************************)
(* C18, amended.  The lifecycle calls an entry point makes are a path of   *)
(* Unconnected -> Connected -> Cleared -> SchemaProvisioned -> Loaded ->   *)
(* Unconnected for a load script and of Unconnected -> Connected ->        *)
(* Unconnected for a query script: clear is called only from Connected,    *)
(* provisioning only from Cleared, load only from SchemaProvisioned, close *)
(* from Loaded or Connected.                                               *)
(***************************************************************************)
ScriptMachine ==
    {<<"Unconnected", "connect", "Connected">>,
     <<"Connected", "clear", "Cleared">>,
     <<"Cleared", "setup", "SchemaProvisioned">>,
     <<"SchemaProvisioned", "load", "Loaded">>,
     <<"Loaded", "close", "Unconnected">>,
     <<"Connected", "close", "Unconnected">>}
    \cup Unphased({"Connected"})

C18_ScriptMachine ==
    Scripted => PhaseAfter(ScriptMachine, CallsMade, Len(CallsMade)) # "stuck"

\* a load script has made its five calls and its clear came right after connect
C18_Witness ==
    /\ caller = "load"
    /\ Exited
    /\ Len(CallsMade) = 5
    /\ CallsMade[2] = "clear"
    /\ Ended("close", "ok")
    /\ PhaseAfter(ScriptMachine, CallsMade, 5) = "Unconnected"

(***************************************************************************)
(* C19.  In the NebulaGraph adapter no data operation (INSERT VERTEX,      *)
(* INSERT EDGE, a query) is sent between a schema or namespace statement   *)
(* (DROP SPACE, CREATE SPACE, USE, CREATE TAG, CREATE EDGE) and the end of *)
(* the wait that follows it; so the first insert of a load comes after the *)
(* wait that follows the last CREATE EDGE.                                 *)
(***************************************************************************)
C19_WaitBeforeData ==
    adapter = "nebula" => Propagation(pre.propagation, stmts, Len(stmts)) # "early"

\* the load script has provisioned the schema and loaded the edges, each batch loader
\* waiting after its USE
C19_Witness ==
    /\ adapter = "nebula"
    /\ caller = "load"
    /\ Ended("load", "ok")
    /\ failures = 0
    /\ Provisioned(adapter) \subseteq pre.catalog
    /\ pre.propagation = "settled"
    /\ \E i \in 1..(Len(stmts) - 2) :
          stmts[i] = "USE" /\ stmts[i + 1] = "sleep" /\ stmts[i + 2] = "INSERT EDGE"

(***************************************************************************)
(* C20.  If the host is unreachable or rejects the credentials, connect    *)
(* itself raises and the run stops there: an entry point makes no call     *)
(* after connect, in every adapter.                                        *)
(***************************************************************************)
C20_ConnectFailureStops ==
    env # "up" =>
        /\ (status = "idle" /\ last.op = "connect") => last.outcome # "ok"
        /\ Scripted => Len(CallsMade) <= 1

(***************************************************************************)
(* C21.  A declaration of schema provisioning that fails is let pass only  *)
(* when the namespace, kind or index exists already: when setup / asetup   *)
(* returns without error everything it declares exists, and an entry point *)
(* starts load only on a completely provisioned schema.                    *)
(***************************************************************************)
C21_DeclarationFailureAborts ==
    /\ Ended("setup", "ok") => Provisioned(adapter) \subseteq catalog
    /\ (caller = "load" /\ last.op = "load") => Provisioned(adapter) \subseteq pre.catalog

(***************************************************************************)
(* C22.  A query of the catalogue that fails does not end the query run:   *)
(* when a query script ends after it has run a query, it has run every     *)
(* query of its catalogue.                                                 *)
(***************************************************************************)
\* the number of queries among lifecycle calls
QueriesIn(calls) == Cardinality({i \in 1..Len(calls) : calls[i] = "query"})

C22_QueryFailureDoesNotAbort ==
    (caller = "queries" /\ Exited /\ QueriesIn(CallsMade) > 0) =>
        QueriesIn(CallsMade) = QueriesIn(Script(adapter, caller))

(***************************************************************************)
(* C23.  As claimed: the stated table order is the only order of the eight *)
(* tables in which no loader inserts an edge before both tables at its     *)
(* ends have been loaded.                                                  *)
(***************************************************************************)
C23_OnlyOrder ==
    (status = "fn_done" /\ fn = "order" /\ fn_out.dangling = {}) => fn_in = StatedOrder

(***************************************************************************)
(* C23, amended.  The stated table order is one of the orders in which no  *)
(* loader inserts an edge before both tables at its ends have been loaded, *)
(* and not the only one: an order is one exactly when region comes before  *)
(* nation, nation before supplier and customer, part and supplier before   *)
(* partsupp, customer before orders, and orders, part and supplier before  *)
(* lineitem (part may be loaded first, for instance).                      *)
(***************************************************************************)
\* the table that must be loaded first and the table that needs it
StatedDependencies ==
    {<<"region", "nation">>, <<"nation", "supplier">>, <<"nation", "customer">>,
     <<"part", "partsupp">>, <<"supplier", "partsupp">>, <<"customer", "orders">>,
     <<"orders", "lineitem">>, <<"part", "lineitem">>, <<"supplier", "lineitem">>}

\* table a comes before table b in the order
Before(order, a, b) ==
    \E i, j \in 1..Len(order) : i < j /\ order[i] = a /\ order[j] = b

C23_OrdersThatSatisfy ==
    (status = "fn_done" /\ fn = "order") =>
        /\ fn_in = StatedOrder => fn_out.dangling = {}
        /\ fn_out.dangling = {} <=> \A d \in StatedDependencies : Before(fn_in, d[1], d[2])

\* with part loaded first no edge is inserted early either
C23_Witness ==
    /\ status = "fn_done"
    /\ fn = "order"
    /\ fn_in = <<"part", "region", "nation", "supplier", "customer", "partsupp", "orders",
                 "lineitem">>
    /\ fn_out.dangling = {}

(***************************************************************************)
(* C24.  As claimed: in every adapter the vertex written for a row of any  *)
(* table carries every column of the row that is not part of its primary   *)
(* key, the foreign-key columns included, and a load leaves one vertex per *)
(* row of every table.                                                     *)
(***************************************************************************)
\* the columns of the primary key of a table
KeyColumns(t) ==
    CASE t = "region"   -> {"regionkey"}
      [] t = "nation"   -> {"nationkey"}
      [] t = "supplier" -> {"suppkey"}
      [] t = "customer" -> {"custkey"}
      [] t = "part"     -> {"partkey"}
      [] t = "partsupp" -> {"partkey", "suppkey"}
      [] t = "orders"   -> {"orderkey"}
      [] t = "lineitem" -> {"orderkey", "linenumber"}

NonKeyColumns(t) == {Columns(t)[i] : i \in 1..Len(Columns(t))} \ KeyColumns(t)

C24_VertexCarriesRow ==
    /\ \A p \in DOMAIN writes :
          writes[p].result = "ok" =>
              NonKeyColumns(writes[p].table) \subseteq VertexColumns(adapter, writes[p].table)
    /\ CleanLoad => \A t \in Tables : Cardinality(VerticesOf(KindOf(t))) = nrows[t]

(***************************************************************************)
(* C25.  A client holds one session on the backend, which connect opens    *)
(* and close releases: clear, setup, load, index dropping and the queries  *)
(* open no session of their own.                                           *)
(***************************************************************************)
\* what opens a session: driver.session() and connection.session_context(user, password)
SessionStmts == {"session", "authenticate"}

C25_OneSession ==
    \A i \in 1..Len(stmts) : stmts[i] \in SessionStmts => last.op = "connect"

(***************************************************************************)
(* C26.  With the ArangoDB adapter, a second aload on a database that was  *)
(* not cleared leaves the number of documents of every vertex collection   *)
(* and of every edge collection unchanged: what the second run inserts is  *)
(* refused as a duplicate.                                                 *)
(***************************************************************************)
C26_ArangoReloadKeepsCounts ==
    (/\ adapter = "arango"
     /\ Ended("load", "ok")
     /\ failures = 0
     /\ pre.vertices # {}) =>
        /\ \A c \in Elems(VERTICES) : CountKind(vertices, c) = CountKind(pre.vertices, c)
        /\ \A c \in Elems(EDGES) : CountRel(edges, c) = CountRel(pre.edges, c)

(***************************************************************************)
(* C27.  In the NebulaGraph adapter no two vertices of different kinds     *)
(* have the same vertex id, so the BELONGS_TO edges of the supplier rows   *)
(* and those of the customer rows are all distinct: a load stores one for  *)
(* every supplier row and one for every customer row.                      *)
(***************************************************************************)
C27_KindsHaveOwnIds ==
    adapter = "nebula" =>
        /\ \A v, w \in vertices : v.key = w.key => v.kind = w.kind
        /\ CleanLoad =>
              Cardinality(EdgesOf("BELONGS_TO")) = nrows["supplier"] + nrows["customer"]

(***************************************************************************)
(* C28.  In the ArangoDB and Neo4j adapters every field that a secondary   *)
(* index of schema provisioning is declared on, for a vertex kind, is a    *)
(* property the loader stores on the vertices of that kind.                *)
(***************************************************************************)
\* vertices of the table have been written
VerticesWritten(t) ==
    \E p \in DOMAIN writes :
        writes[p].table = t /\ writes[p].result = "ok" /\ CarriesVertices(writes[p])

C28_IndexedFieldsStored ==
    /\ adapter = "arango" =>
          \A ix \in Elems(INDICES) :
              (Has(catalog, "index", ix.name) /\ VerticesWritten(ix.coll)) =>
                  ix.column \in VertexColumns(adapter, ix.coll)
    /\ adapter = "neo4j" =>
          \A name \in Elems(Neo4jIndices) : \A t \in Tables :
              (/\ Has(catalog, "index", name)
               /\ Neo4jIndexOn(name).on = "node"
               /\ Neo4jIndexOn(name).label = KindOf(t)
               /\ VerticesWritten(t)) =>
                  Neo4jIndexOn(name).props \subseteq VertexColumns(adapter, t)

(***************************************************************************)
(* C29.  For each of the nine ArangoDB edge collections, the edge          *)
(* definition agraph creates names as from- and to-collection members of   *)
(* VERTICES, and they are the collections the "_from" and "_to" of the     *)
(* collection's edges name.                                                *)
(***************************************************************************)
C29_EdgeDefinitionsMatch ==
    adapter = "arango" =>
        /\ \A e \in Elems(EDGES) :
              Has(catalog, "edgedef", e) => {SplitFrom(e), SplitTo(e)} \subseteq Elems(VERTICES)
        /\ \A ed \in edges :
              Has(catalog, "edgedef", ed.rel) =>
                  ed.from.kind = SplitFrom(ed.rel) /\ ed.to.kind = SplitTo(ed.rel)

(***************************************************************************)
(* C30.  In the NebulaGraph batch loaders a USE whose result is not        *)
(* succeeded makes the batch loader return without an INSERT for its       *)
(* vertex or edge kind and without an error: load goes on with the next    *)
(* kinds and tables and ends with the message that all tables were loaded. *)
(* After a USE that succeeded every batch of the kind is attempted exactly *)
(* once, and no batch is ever attempted twice.                             *)
(***************************************************************************)
\* how often the batch of the call `op` was sent
Attempts(op) ==
    Cardinality({p \in DOMAIN writes : /\ writes[p].table = op.table
                                       /\ writes[p].coll = op.coll
                                       /\ writes[p].first = op.rows[1]})

\* the batch-load calls of load, as the USE each begins with
BatchLoads == UNION {{op \in Elems(NebulaLoader(t)) : op.call = "USE"} : t \in Tables}

\* the INSERT calls of a batch-load call
InsertsOf(use) ==
    {op \in Elems(NebulaLoader(use.table)) : op.call # "USE" /\ op.coll = use.coll}

\* the "Failed to use space" messages
FailedUses == Cardinality({m \in DOMAIN log : log[m].msg = "Failed to use space"})

C30_FailedUseSkipsKind ==
    adapter = "nebula" =>
        /\ \A use \in BatchLoads : \A op \in InsertsOf(use) : Attempts(op) <= 1
        /\ status = "aborted" => stmts[Len(stmts)] = "USE"
        /\ status = "done" =>
              /\ log[Len(log)] = AllLoaded
              /\ \A use \in BatchLoads :
                    \/ \A op \in InsertsOf(use) : Attempts(op) = 1
                    \/ \A op \in InsertsOf(use) : Attempts(op) = 0
              /\ Cardinality({use \in BatchLoads : \A op \in InsertsOf(use) : Attempts(op) = 0})
                    = FailedUses

\* the USE of the Region vertices failed: load ended as if successful with no Region
\* insert and with both batches of the Order vertices sent once
C30_Witness ==
    /\ adapter = "nebula"
    /\ status = "done"
    /\ nrows["orders"] > batch_size
    /\ UseFailed("Region")
    /\ \A p \in DOMAIN writes : writes[p].coll # "Region"
    /\ Cardinality({p \in DOMAIN writes : writes[p].coll = "Order"}) = 2
    /\ log[Len(log)] = AllLoaded

====
